---- MODULE Spec2Model ----
(***************************************************************************)
(* Model of the v3 content-scouting session engine (src/bot/v3):           *)
(* SessionMetrics, RiskEstimator, SessionManager.step, the locked state    *)
(* store and the two loops of telegram/integration.py that share it.       *)
(*                                                                         *)
(* Units.  Times are whole seconds.  Pause durations are tenths of a       *)
(* second (pause_seconds is a float in the source; the jittered pause of   *)
(* a step is around 0.8 s).  Every comparison of a rate or of the fatigue  *)
(* score with a threshold is done on exact rationals, by cross             *)
(* multiplication, so no rounding is introduced by the model.              *)
(***************************************************************************)
EXTENDS Integers, Sequences, FiniteSets, TLC

VARIABLES
    am,      \* RiskEstimator.assess input: the SessionMetrics value
    anow,    \* RiskEstimator.assess input: now_ts
    acfg,    \* RiskEstimator.__init__ input: max_session_seconds as configured
    ares,    \* result of the last assess call, or NoResult
    call,    \* arguments of the pure function call under check, or NoCall
    ret,     \* what that call returned, or NoRet
    store,   \* storage.py: the state file, its temporary file, _LOCK and
             \* the position of each thread inside a locked load or save
    procs,   \* main.py: per process, its environment and how far it got
    disk,    \* the persisted V3State (the state file)
    loc,     \* per thread: position and the V3State object it holds
    now,     \* wall clock, seconds
    nsid,    \* number of session ids handed out by new_session_id()
    ncmd,    \* number of callbacks the polling loop has taken up
    nstep,   \* number of calls of step that got past the session check
    stopped, \* history: a Stop command was persisted and no Start since
    decided, \* history: per item, the status a human set while a Step of
             \* the scheduler loop was in flight
    paused_cmd \* history: a Pause command was persisted and no Resume,
             \* Start or Stop command since

avars == <<am, anow, acfg, ares, call, ret, store, procs>>

svars == <<disk, loc, now, nsid, ncmd, nstep, stopped, decided, paused_cmd>>

vars == <<am, anow, acfg, ares, call, ret, store, procs, disk, loc, now, nsid, ncmd, nstep, stopped, decided,
         paused_cmd>>

(***************************************************************************)
(* Bounds of the input grids of the pure-function specifications.          *)
(***************************************************************************)
MaxScrollUnits == 12
MaxOpenUnits == 2

(***************************************************************************)
(* Bounds of the session model.                                            *)
(***************************************************************************)
MaxKeys == 1       \* content fingerprints the agent can show
MaxSessions == 2   \* session ids new_session_id() hands out
MaxSteps == 2      \* calls of step that scroll
MaxCommands == 2   \* callbacks the polling loop takes up
MaxTicks == 1      \* clock advances
TickSeconds == 900 \* seconds per clock advance

\* V3Config.max_session_seconds, default of V3_MAX_SESSION_SECONDS
MaxSessionSeconds == 900

Min(a, b) == IF a <= b THEN a ELSE b
Max(a, b) == IF a >= b THEN a ELSE b

NoResult == [level |-> "none", remaining |-> 0, rule |-> 0]
NoCall == [fn |-> "none"]
NoRet == [fn |-> "none"]

(***************************************************************************)
(* SessionMetrics (mobile_agent/metrics.py)                                *)
(***************************************************************************)
SessionMetrics(started, sc, oc, ps) ==
    [started_ts |-> started, scroll_count |-> sc, open_count |-> oc, pause_seconds |-> ps]

elapsed_seconds(m, now_ts) == Max(0, now_ts - m.started_ts)

\* scroll_rate_per_min(now) >= x, for an integer x > 0.  The rate is 0 when
\* elapsed <= 0, otherwise scroll_count / (elapsed / 60).
scroll_rate_per_min_ge(m, now_ts, x) ==
    LET e == elapsed_seconds(m, now_ts)
    IN  IF e <= 0 THEN 0 >= x ELSE m.scroll_count * 60 >= x * e

\* fatigue_score(now) as the fraction num / den, before the final clamp to
\* [0,1].  With e = elapsed > 0:
\*   t = min(1, e/1200) = min(1200, e)/1200,
\*   r = min(1, rpm/60) = min(e, scroll_count)/e,
\*   pause_relief = min(0.3, pause_seconds/120) = min(360, tenths)/1200,
\*   score = 0.55 t + 0.55 r - pause_relief.
\* The common denominator is 24000 e.
fatigue_num(m, now_ts) ==
    LET e == elapsed_seconds(m, now_ts)
    IN  IF e <= 0
        THEN 0 - 20 * Min(360, m.pause_seconds)
        ELSE 11 * Min(1200, e) * e
             + 13200 * Min(e, m.scroll_count)
             - 20 * Min(360, m.pause_seconds) * e

\* one hundredth of the denominator of fatigue_num
fatigue_den(m, now_ts) ==
    LET e == elapsed_seconds(m, now_ts)
    IN  IF e <= 0 THEN 240 ELSE 240 * e

\* a fatigue score returned without the final clamp
fatigue_unclamped(score, one) == score

\* the final clamp max(0.0, min(1.0, score)) of fatigue_score, on a score
\* given as a numerator over the denominator "one"
fatigue_clamp(score, one) == Max(0, Min(one, score))

\* fatigue_score(now) as returned: numerator over 100 * fatigue_den
fatigue_score_num(m, now_ts) ==
    fatigue_clamp(fatigue_num(m, now_ts), 100 * fatigue_den(m, now_ts))

\* fatigue_score(now) >= pct/100 for 0 < pct <= 100: the clamp
\* max(0, min(1, score)) does not change the comparison.
fatigue_score_ge(m, now_ts, pct) ==
    fatigue_num(m, now_ts) >= pct * fatigue_den(m, now_ts)

(***************************************************************************)
(* RiskEstimator (mobile_agent/risk_estimator.py)                          *)
(***************************************************************************)
\* RiskEstimator.__init__: self._max
risk_max(cfg) == Max(60, cfg)

\* _per_min(count, elapsed) >= a/b  (count per minute), 0 when elapsed <= 0
per_min_ge(count, e, a, b) ==
    IF e <= 0 THEN 0 >= a ELSE count * 60 * b >= a * e

\* _per_min(count, elapsed) <= a/b
per_min_le(count, e, a, b) ==
    IF e <= 0 THEN 0 <= a ELSE count * 60 * b <= a * e

\* a warm-up test that never suppresses a rate rule
in_warmup_never(e) == e < 0

in_warmup(e) == e < 60

\* a hard stop that only triggers strictly after the limit
hard_stop_strict(e, mx) == e > mx

hard_stop(e, mx) == e >= mx

near_time_limit(remaining) == remaining <= 180

\* pause_per_min <= a/10.  pause_seconds is kept in tenths of a second:
\* (pause_seconds / 10) * 60 / e <= a / 10  iff  pause_seconds * 60 <= a * e.
pause_per_min_le(m, e, a) == per_min_le(m.pause_seconds, e, a, 1)

\* assess(m, now_ts): the if-chain of the source, in source order.  The
\* field "rule" records which return statement was taken (1..11).
assess(m, now_ts, mx) ==
    LET e == elapsed_seconds(m, now_ts)
        remaining == Max(0, mx - e)
        warm == in_warmup(e)
    IN  IF hard_stop(e, mx)
        THEN [level |-> "HIGH_RISK", remaining |-> 0, rule |-> 1]
        ELSE IF fatigue_score_ge(m, now_ts, 90)
        THEN [level |-> "HIGH_RISK", remaining |-> remaining, rule |-> 2]
        ELSE IF (~warm) /\ scroll_rate_per_min_ge(m, now_ts, 90)
        THEN [level |-> "HIGH_RISK", remaining |-> remaining, rule |-> 3]
        ELSE IF (~warm) /\ e >= 5 * 60 /\ scroll_rate_per_min_ge(m, now_ts, 75)
                /\ pause_per_min_le(m, e, 5)
        THEN [level |-> "HIGH_RISK", remaining |-> remaining, rule |-> 4]
        ELSE IF (~warm) /\ e >= 5 * 60 /\ per_min_ge(m.open_count, e, 20, 1)
                /\ pause_per_min_le(m, e, 8)
        THEN [level |-> "HIGH_RISK", remaining |-> remaining, rule |-> 5]
        ELSE IF near_time_limit(remaining)
        THEN [level |-> "WARNING", remaining |-> remaining, rule |-> 6]
        ELSE IF fatigue_score_ge(m, now_ts, 70)
        THEN [level |-> "WARNING", remaining |-> remaining, rule |-> 7]
        ELSE IF (~warm) /\ scroll_rate_per_min_ge(m, now_ts, 60)
        THEN [level |-> "WARNING", remaining |-> remaining, rule |-> 8]
        ELSE IF (~warm) /\ per_min_ge(m.open_count, e, 12, 1)
        THEN [level |-> "WARNING", remaining |-> remaining, rule |-> 9]
        ELSE IF (~warm) /\ e >= 8 * 60 /\ pause_per_min_le(m, e, 8)
        THEN [level |-> "WARNING", remaining |-> remaining, rule |-> 10]
        ELSE [level |-> "SAFE", remaining |-> remaining, rule |-> 11]

(***************************************************************************)
(* The persisted aggregate (state.py) and the store (storage.py)           *)
(***************************************************************************)
Keys == 1..MaxKeys
SessionIds == 1..MaxSessions
\* AndroidAgent.get_status; LOCKED takes the branches of DISCONNECTED in step
\* and in start_session (both test status # READY), so one not-ready value
\* stands for both.
DeviceStatuses == {"READY", "DISCONNECTED"}

\* Internal ids.  <<"sc", k>> is vid_<shortcode found in the captured URL>,
\* <<"h", k>> is vid_<_stable_shortcode(content_key)>; k is the content on
\* screen, which the fingerprint names.
Vids == {"sc", "h"} \X Keys

\* What copy_current_reel_link_from_share_sheet can return: nothing, a URL
\* with a /reel/<code> path, or a URL with a /reels/ path (accepted by the
\* agent, not matched by the shortcode pattern of step).
CaptureResults == {"", "reel", "reels"}

\* Jittered scroll pause and open-watch pause, tenths of a second.
PauseChoices == {8}
WatchChoices == {15}

NoItem == [status |-> "none", source_url |-> "", message_id |-> FALSE]
NoMetrics == [started_ts |-> 0 - 1, scroll_count |-> 0, open_count |-> 0, pause_seconds |-> 0]

\* V3State(): the aggregate a missing state file loads as.  A session id of 0
\* is None; an absent settings key reads as its default (safety on).
V3State ==
    [ active_session_id |-> 0,
      session_paused |-> FALSE,
      control_chat_id |-> FALSE,
      risk_safety_enabled |-> TRUE,
      last_session_stop_reason |-> "",
      videos |-> [v \in Vids |-> NoItem],
      session_metrics |-> [s \in SessionIds |-> NoMetrics] ]

(***************************************************************************)
(* SessionManager (session_manager.py)                                     *)
(***************************************************************************)
apply_event(m, ev) ==
    IF ev.type = "scroll" THEN [m EXCEPT !.scroll_count = @ + 1]
    ELSE IF ev.type = "open" THEN [m EXCEPT !.open_count = @ + 1]
    ELSE IF ev.type = "pause" THEN [m EXCEPT !.pause_seconds = @ + ev.seconds]
    ELSE m

RECURSIVE apply_events(_, _)
apply_events(m, events) ==
    IF events = << >> THEN m
    ELSE apply_events(apply_event(m, Head(events)), Tail(events))

ensure_metrics(st, sid, t) ==
    IF st.session_metrics[sid] = NoMetrics
    THEN [st EXCEPT !.session_metrics[sid] = SessionMetrics(t, 0, 0, 0)]
    ELSE st

ScrollEvent == [type |-> "scroll", seconds |-> 0]
OpenEvent == [type |-> "open", seconds |-> 0]

\* a pause event that keeps the requested duration as it is
PauseEvent_uncoerced(sec) == [type |-> "pause", seconds |-> sec]

\* SimulatedMobileAgent.pause: sec = max(0.0, float(seconds))
PauseEvent(sec) == [type |-> "pause", seconds |-> Max(0, sec)]

\* start_new_session(st) after handlers.start_session set control_chat_id;
\* status is the probe's answer, sid the fresh id.
start_new_session(st, status, sid, t) ==
    IF status # "READY"
    THEN [st EXCEPT !.control_chat_id = TRUE, !.active_session_id = 0]
    ELSE ensure_metrics([st EXCEPT !.control_chat_id = TRUE,
                                   !.active_session_id = sid,
                                   !.last_session_stop_reason = ""], sid, t)

stop_session(st) ==
    [st EXCEPT !.active_session_id = 0,
               !.session_paused = TRUE,
               !.last_session_stop_reason =
                   IF @ # "" THEN @ ELSE "stopped_by_user"]

\* step, lines 226-236: the device is not READY while a session is active
step_device_lost(st, status) ==
    [st EXCEPT !.active_session_id = 0,
               !.last_session_stop_reason = "device_" \o status]

\* step, lines 238-244: no active session id, one is created and saved
step_create_session(st, sid) ==
    [st EXCEPT !.active_session_id = sid, !.last_session_stop_reason = ""]

\* keep_ok with the capture result ignored
keep_ok_uncaptured(keep_requested, clipboard_url) == keep_requested

keep_ok(keep_requested, clipboard_url) == keep_requested /\ clipboard_url # ""

\* the internal id: the shortcode of a /reel/ URL, else the stable shortcode
\* of the identity key
vid_of(identity_key, source_url) ==
    IF source_url = "reel" THEN <<"sc", identity_key>> ELSE <<"h", identity_key>>

\* a re-observation that brings any kept item back to pending
reobserve_status_any(status, kok) == IF kok THEN "pending" ELSE status

\* status of an already known item after a re-observation
reobserve_status(status, kok) ==
    IF status = "deleted" /\ kok THEN "pending" ELSE status

\* a capture attempted whatever the decision
capture_attempts_always(keep_requested) == 1

\* how often step calls copy_current_reel_link_from_share_sheet, lines 631-640
capture_attempts(keep_requested) == IF keep_requested THEN 1 ELSE 0

\* a new item that is pending whatever the capture gave
new_item_status_kept(kok) == "pending"

\* status of a new item, line 728
new_item_status(kok) == IF kok THEN "pending" ELSE "deleted"

\* the events of a normal observation on every path
step_events_paused(path, pause_s, opened, watch_s) ==
    << ScrollEvent, PauseEvent(pause_s) >>
    \o (IF opened THEN << OpenEvent, PauseEvent(watch_s) >> ELSE << >>)

\* the events one step produces on each of its paths
step_events(path, pause_s, opened, watch_s) ==
    IF path \in {"recover", "ad"} THEN << ScrollEvent >>
    ELSE << ScrollEvent, PauseEvent(pause_s) >>
         \o (IF opened THEN << OpenEvent, PauseEvent(watch_s) >> ELSE << >>)

\* step from line 246 on, for a state with an active session id.  Inputs:
\* the path the device checks take (post-swipe recovery, ad skip, or a
\* normal observation), the pauses drawn, whether the agent opens the reel,
\* the content fingerprint of the scroll event, the Selector's should_keep
\* and the capture result.  The result holds the state object after the
\* step, the returned risk level, whether step saved the state itself,
\* which branch returned, what the Selector decided ("" when it was not
\* called), how often the capture was called and whether an item was
\* returned.
step_active(st, t, mx, path, pause_s, opened, watch_s, key, keep, url) ==
    LET sid == st.active_session_id
        st1 == ensure_metrics(st, sid, t)
        m == apply_events(st1.session_metrics[sid],
                          step_events(path, pause_s, opened, watch_s))
        st2 == [st1 EXCEPT !.session_metrics[sid] = m]
    IN  IF path \in {"recover", "ad"}
        THEN [st |-> st2, risk |-> "SAFE", saved |-> FALSE, branch |-> path,
              vid |-> <<"h", key>>, kok |-> FALSE, promoted |-> FALSE,
              sel |-> "", captures |-> 0, item |-> FALSE]
        ELSE
        LET captures == capture_attempts(keep)
            source_url == IF captures > 0 THEN url ELSE ""
            sel == IF keep THEN "keep" ELSE "discard"
            kok == keep_ok(keep, source_url)
            vid == vid_of(key, source_url)
            existing == st2.videos[vid]
            risk == assess(m, t, mx)
        IN  IF existing # NoItem
            THEN [st |-> [st2 EXCEPT
                            !.videos[vid].source_url =
                                IF source_url # "" THEN source_url ELSE @,
                            !.videos[vid].status = reobserve_status(@, kok) ],
                  risk |-> risk.level, saved |-> TRUE, branch |-> "existing",
                  vid |-> vid, kok |-> kok,
                  promoted |-> (reobserve_status(existing.status, kok) # existing.status),
                  sel |-> sel, captures |-> captures,
                  item |-> (reobserve_status(existing.status, kok) = "pending")]
            ELSE
            LET st3 == [st2 EXCEPT
                          !.videos[vid] =
                              [status |-> new_item_status(kok),
                               source_url |-> source_url,
                               message_id |-> FALSE] ]
                st4 == IF risk.level = "HIGH_RISK" /\ st3.risk_safety_enabled
                       THEN [st3 EXCEPT !.active_session_id = 0,
                                        !.last_session_stop_reason = "high_risk"]
                       ELSE st3
            IN  [st |-> st4, risk |-> risk.level, saved |-> TRUE,
                 branch |-> "new", vid |-> vid, kok |-> kok, promoted |-> FALSE,
                 sel |-> sel, captures |-> captures, item |-> kok]

(***************************************************************************)
(* storage.py: what the files and the lock are before any load or save.    *)
(* A file is a record of the snapshot written into it and of whether the   *)
(* write reached its end; snapshot 0 with complete FALSE is a missing      *)
(* file.                                                                   *)
(***************************************************************************)
NoFile == [snapshot |-> 0, complete |-> FALSE]

StorePaths == {"state.json", "state.json.tmp"}

StoreIdle == [pc |-> "idle", snapshot |-> 0, previous |-> NoFile, loaded |-> 0]

NoStore ==
    [ files |-> [p \in StorePaths |-> NoFile],
      lock |-> "",
      th |-> [t \in {"loop", "cmd"} |-> StoreIdle],
      saves |-> 0,
      stops |-> 0 ]

(***************************************************************************)
(* main.py: no process has been launched.                                  *)
(***************************************************************************)
Procs == {1, 2}

NoEnv == [V3_STATE_FILE |-> "", V3_DATA_DIR |-> ""]

NoProcs ==
    [p \in Procs |-> [pc |-> "none", env |-> NoEnv, mutex |-> "", launches |-> 0]]

(***************************************************************************)
(* handlers.py                                                             *)
(***************************************************************************)
set_status(st, vid, status) == [st EXCEPT !.videos[vid].status = status]

(***************************************************************************)
(* The two threads of telegram/integration.py.  "loop" is session_loop,    *)
(* "cmd" is the polling loop that runs one callback at a time.  Each       *)
(* holds at most one V3State object, obtained by load_state_locked and     *)
(* written back by save_state_locked; everything between two accesses to   *)
(* the store is local to the thread.                                       *)
(***************************************************************************)
Threads == {"loop", "cmd"}

Rest(t) ==
    [ pc |-> IF t = "loop" THEN "top" ELSE "idle",
      st |-> V3State,       \* the object held (V3State when none is held)
      created |-> FALSE,    \* created_session of step
      probe |-> "",         \* status _probe_device reported to step or Start
      risk |-> "",          \* level of the RiskAssessment step returned
      branch |-> "",        \* which return of step was taken
      vid |-> <<"h", 1>>,   \* id step resolved, or id a callback names
      kok |-> FALSE,        \* keep_ok of step
      promoted |-> FALSE,   \* promoted of step
      sel |-> "",           \* what the Selector decided in step, if called
      captures |-> 0,       \* calls of the reference capture in step
      item |-> FALSE,       \* step returned an item
      late |-> FALSE,       \* step began with elapsed >= the session limit
      arg |-> "" ]          \* status a callback sets

Init ==
    /\ disk = V3State
    /\ loc = [t \in Threads |-> Rest(t)]
    /\ now = 0
    /\ nsid = 0
    /\ ncmd = 0
    /\ nstep = 0
    /\ stopped = FALSE
    /\ paused_cmd = FALSE
    /\ decided = [v \in Vids |-> ""]
    /\ store = NoStore
    /\ procs = NoProcs
    /\ am = SessionMetrics(0, 0, 0, 0)
    /\ anow = 0
    /\ acfg = MaxSessionSeconds
    /\ ares = NoResult
    /\ call = NoCall
    /\ ret = NoRet

\* time passes
Tick ==
    /\ now < MaxTicks * TickSeconds
    /\ now' = now + TickSeconds
    /\ UNCHANGED <<avars, disk, loc, nsid, ncmd, nstep, stopped, decided, paused_cmd>>

\* session_loop, lines 768-799: load, and go on only with an active, unpaused
\* session and a control chat
LoopCheck ==
    /\ loc["loop"].pc = "top"
    /\ disk.active_session_id # 0
    /\ disk.control_chat_id
    /\ ~disk.session_paused
    /\ loc' = [loc EXCEPT !["loop"].pc = "checked"]
    /\ UNCHANGED <<avars, disk, now, nsid, ncmd, nstep, stopped, decided, paused_cmd>>

\* step_once, line 56: load_state_locked.  The scheduler loop gets here from
\* LoopCheck, the polling loop from the callback v3:sess:step.
StepOnceLoad(t) ==
    /\ (t = "cmd" => ncmd < MaxCommands)
    /\ loc[t].pc = (IF t = "loop" THEN "checked" ELSE "idle")
    /\ loc' = [loc EXCEPT ![t] = [Rest(t) EXCEPT !.pc = "loaded", !.st = disk]]
    /\ ncmd' = IF t = "cmd" THEN ncmd + 1 ELSE ncmd
    /\ UNCHANGED <<avars, disk, now, nsid, nstep, stopped, decided, paused_cmd>>

\* step, lines 238-244
StepCreate(t) ==
    /\ loc[t].pc = "loaded"
    /\ loc[t].st.active_session_id = 0
    /\ nsid < MaxSessions
    /\ \E status \in DeviceStatuses :
         LET st == step_create_session(loc[t].st, nsid + 1)
         IN  /\ loc' = [loc EXCEPT ![t].st = st, ![t].created = TRUE,
                                   ![t].probe = status]
             /\ disk' = st
    /\ nsid' = nsid + 1
    /\ UNCHANGED <<avars, now, ncmd, nstep, stopped, decided, paused_cmd>>

\* step, lines 226-236
StepDeviceLost(t) ==
    /\ loc[t].pc = "loaded"
    /\ loc[t].st.active_session_id # 0
    /\ ~loc[t].created
    /\ \E status \in DeviceStatuses \ {"READY"} :
         LET st == step_device_lost(loc[t].st, status)
         IN  /\ loc' = [loc EXCEPT ![t].st = st, ![t].pc = "stepped",
                                   ![t].probe = status,
                                   ![t].risk = "SAFE", ![t].branch = "unready"]
             /\ disk' = st
    /\ UNCHANGED <<avars, now, nsid, ncmd, nstep, stopped, decided, paused_cmd>>

\* step, lines 246-782
StepRun(t) ==
    /\ loc[t].pc = "loaded"
    /\ loc[t].st.active_session_id # 0
    /\ LET sid == loc[t].st.active_session_id
           m0 == ensure_metrics(loc[t].st, sid, now).session_metrics[sid]
       IN  /\ nstep < MaxSteps
           /\ \E path \in {"recover", "ad", "normal"}, pause_s \in PauseChoices,
                 opened \in BOOLEAN, watch_s \in WatchChoices, key \in Keys,
                 keep \in BOOLEAN, url \in CaptureResults :
                LET r == step_active(loc[t].st, now, risk_max(MaxSessionSeconds),
                                     path, pause_s, opened, watch_s, key, keep, url)
                IN  /\ loc' = [loc EXCEPT ![t].st = r.st, ![t].pc = "stepped",
                                          ![t].probe = IF loc[t].created
                                                       THEN loc[t].probe ELSE "READY",
                                          ![t].risk = r.risk, ![t].branch = r.branch,
                                          ![t].vid = r.vid, ![t].kok = r.kok,
                                          ![t].promoted = r.promoted,
                                          ![t].sel = r.sel,
                                          ![t].captures = r.captures,
                                          ![t].item = r.item,
                                          ![t].late = hard_stop(elapsed_seconds(m0, now),
                                                                risk_max(MaxSessionSeconds))]
                    /\ disk' = IF r.saved THEN r.st ELSE disk
    /\ nstep' = nstep + 1
    /\ UNCHANGED <<avars, now, nsid, ncmd, stopped, decided, paused_cmd>>

\* step_once, line 65: save_state_locked of the object step returned
StepOnceSave(t) ==
    /\ loc[t].pc = "stepped"
    /\ disk' = loc[t].st
    /\ loc' = [loc EXCEPT ![t] = IF t = "loop"
                                 THEN [loc[t] EXCEPT !.pc = "post"]
                                 ELSE Rest(t)]
    /\ UNCHANGED <<avars, now, nsid, ncmd, nstep, stopped, decided, paused_cmd>>

\* session_loop, lines 807-978: send one preview for a pending item that has
\* no message id, raise the device and risk alerts, each followed by a save
\* of the object step_once returned.
LoopPost ==
    /\ loc["loop"].pc = "post"
    /\ LET st2 == loc["loop"].st
           candidates == {v \in Vids : st2.videos[v].status = "pending"
                                       /\ ~st2.videos[v].message_id}
           should_alert == loc["loop"].risk \in {"WARNING", "HIGH_RISK"}
           device_alert == loc["loop"].branch = "unready"
       IN  \E sent \in BOOLEAN, cooldown_ok \in BOOLEAN :
             \E cand \in (IF candidates = {} THEN {<<"h", 1>>} ELSE candidates) :
               LET st3 == IF candidates # {} /\ sent
                          THEN [st2 EXCEPT !.videos[cand].message_id = TRUE]
                          ELSE st2
                   saves == candidates # {} \/ (should_alert /\ cooldown_ok)
                            \/ (device_alert /\ cooldown_ok)
               IN  /\ (candidates = {} => ~sent)
                   /\ (~(should_alert \/ device_alert) => ~cooldown_ok)
                   /\ disk' = IF saves THEN st3 ELSE disk
    /\ loc' = [loc EXCEPT !["loop"] = Rest("loop")]
    /\ decided' = [v \in Vids |-> ""]
    /\ UNCHANGED <<avars, now, nsid, ncmd, nstep, stopped, paused_cmd>>

\* The scheduler loop is between the load and the final save of step_once.
StepInFlight == loc["loop"].pc \in {"loaded", "stepped"}

\* Callbacks of the polling loop that load the state, change it and save it
\* once: v3:sess:pause, v3:sess:resume, v3:toggle:risk_safety,
\* v3:item:approve / v3:item:reject (handlers.set_status), v3:item:delete
\* and v3:videos:purge:yes (_purge_all_videos_state).
Callbacks == {"pause", "resume", "toggle_safety", "set_status", "delete", "purge"}

\* _purge_all_videos_state, between its load and its save
purge_all_videos_state(st) ==
    [st EXCEPT !.videos = [v \in Vids |-> NoItem],
               !.session_metrics = [i \in SessionIds |-> NoMetrics],
               !.last_session_stop_reason = ""]

callback_result(st, op, vid, status) ==
    IF op = "pause" THEN [st EXCEPT !.session_paused = TRUE]
    ELSE IF op = "resume" THEN [st EXCEPT !.session_paused = FALSE]
    ELSE IF op = "toggle_safety" THEN [st EXCEPT !.risk_safety_enabled = ~@]
    ELSE IF op = "set_status" THEN set_status(st, vid, status)
    ELSE IF op = "purge" THEN purge_all_videos_state(st)
    ELSE set_status(st, vid, "deleted")

\* load_state_locked of a callback; set_status and delete return at once
\* when the item is unknown
CallbackLoad ==
    /\ ncmd < MaxCommands
    /\ loc["cmd"].pc = "idle"
    /\ \E op \in Callbacks, vid \in Vids, status \in {"approved", "rejected"} :
         /\ (op \in {"set_status", "delete"} => disk.videos[vid] # NoItem)
         /\ (op \notin {"set_status", "delete"} => vid = <<"h", 1>>)
         /\ (op # "set_status" => status = "approved")
         /\ loc' = [loc EXCEPT !["cmd"] =
                      [Rest("cmd") EXCEPT !.pc = op, !.st = disk, !.vid = vid,
                                          !.arg = IF op = "set_status" THEN status ELSE ""]]
    /\ ncmd' = ncmd + 1
    /\ UNCHANGED <<avars, disk, now, nsid, nstep, stopped, decided, paused_cmd>>

\* save_state_locked of a callback
CallbackSave ==
    /\ loc["cmd"].pc \in Callbacks
    /\ LET c == loc["cmd"]
       IN  /\ disk' = callback_result(c.st, c.pc, c.vid, c.arg)
           /\ decided' = IF c.pc = "set_status" /\ StepInFlight
                         THEN [decided EXCEPT ![c.vid] = c.arg]
                         ELSE IF c.pc \in {"set_status", "delete"}
                         THEN [decided EXCEPT ![c.vid] = ""]
                         ELSE IF c.pc = "purge"
                         THEN [v \in Vids |-> ""]
                         ELSE decided
    /\ paused_cmd' = IF loc["cmd"].pc = "pause" THEN TRUE
                      ELSE IF loc["cmd"].pc = "resume" THEN FALSE
                      ELSE paused_cmd
    /\ loc' = [loc EXCEPT !["cmd"] = Rest("cmd")]
    /\ UNCHANGED <<avars, now, nsid, ncmd, nstep, stopped>>

\* callback v3:sess:start, line 1439: load
StartLoad ==
    /\ ncmd < MaxCommands
    /\ loc["cmd"].pc = "idle"
    /\ loc' = [loc EXCEPT !["cmd"] = [Rest("cmd") EXCEPT !.pc = "start", !.st = disk]]
    /\ ncmd' = ncmd + 1
    /\ UNCHANGED <<avars, disk, now, nsid, nstep, stopped, decided, paused_cmd>>

\* handlers.start_session: start_new_session probes the device and saves
StartSession ==
    /\ loc["cmd"].pc = "start"
    /\ \E status \in DeviceStatuses :
         /\ (status = "READY" => nsid < MaxSessions)
         /\ LET st == start_new_session(loc["cmd"].st, status, nsid + 1, now)
            IN  /\ loc' = [loc EXCEPT !["cmd"].st = st, !["cmd"].pc = "started",
                                      !["cmd"].probe = status]
                /\ disk' = st
         /\ nsid' = IF status = "READY" THEN nsid + 1 ELSE nsid
         /\ stopped' = IF status = "READY" THEN FALSE ELSE stopped
    /\ paused_cmd' = FALSE
    /\ UNCHANGED <<avars, now, ncmd, nstep, decided>>

\* callback v3:sess:start, lines 1452-1453: clear the pause flag, save
StartFinish ==
    /\ loc["cmd"].pc = "started"
    /\ disk' = [loc["cmd"].st EXCEPT !.session_paused = FALSE]
    /\ loc' = [loc EXCEPT !["cmd"] = Rest("cmd")]
    /\ UNCHANGED <<avars, now, nsid, ncmd, nstep, stopped, decided, paused_cmd>>

\* callback v3:sess:stop, line 1502: load
StopLoad ==
    /\ ncmd < MaxCommands
    /\ loc["cmd"].pc = "idle"
    /\ loc' = [loc EXCEPT !["cmd"] = [Rest("cmd") EXCEPT !.pc = "stop", !.st = disk]]
    /\ ncmd' = ncmd + 1
    /\ UNCHANGED <<avars, disk, now, nsid, nstep, stopped, decided, paused_cmd>>

\* handlers.stop_session: SessionManager.stop_session saves
StopSession ==
    /\ loc["cmd"].pc = "stop"
    /\ LET st == stop_session(loc["cmd"].st)
       IN  /\ loc' = [loc EXCEPT !["cmd"].st = st, !["cmd"].pc = "stopping"]
           /\ disk' = st
    /\ paused_cmd' = FALSE
    /\ UNCHANGED <<avars, now, nsid, ncmd, nstep, stopped, decided>>

\* callback v3:sess:stop, lines 1504-1505: clear the pause flag, save
StopFinish ==
    /\ loc["cmd"].pc = "stopping"
    /\ disk' = [loc["cmd"].st EXCEPT !.session_paused = FALSE]
    /\ loc' = [loc EXCEPT !["cmd"] = Rest("cmd")]
    /\ stopped' = TRUE
    /\ UNCHANGED <<avars, now, nsid, ncmd, nstep, decided, paused_cmd>>

Next ==
    \/ Tick
    \/ LoopCheck
    \/ LoopPost
    \/ \E t \in Threads : StepOnceLoad(t)
    \/ \E t \in Threads : StepCreate(t)
    \/ \E t \in Threads : StepDeviceLost(t)
    \/ \E t \in Threads : StepRun(t)
    \/ \E t \in Threads : StepOnceSave(t)
    \/ CallbackLoad
    \/ CallbackSave
    \/ StartLoad
    \/ StartSession
    \/ StartFinish
    \/ StopLoad
    \/ StopSession
    \/ StopFinish

Spec == Init /\ [][Next]_vars

(***************************************************************************)
(* Properties of the session engine, checked under Spec.                   *)
(***************************************************************************)
\* C1: whenever a step of a running session obtains HIGH_RISK while
\* risk_safety_enabled is on, the state that step returns (and persists) has
\* no active session id, on every path that assesses risk.
HighRiskStepStopsSession ==
    \A t \in Threads :
        (loc[t].pc = "stepped" /\ loc[t].risk = "HIGH_RISK"
         /\ loc[t].st.risk_safety_enabled)
        => loc[t].st.active_session_id = 0

\* C2: a status a human set to approved or rejected while a step of the
\* scheduler loop was in flight is the persisted status of that item once
\* that step has made its final save.
HumanDecisionSurvivesStep ==
    loc["loop"].pc = "post" =>
        \A v \in Vids : decided[v] # "" => disk.videos[v].status = decided[v]

\* C3: once a Stop command has been processed and persisted, the persisted
\* active session id stays empty until a Start, and the scheduler loop
\* begins no further step.
StopIsHardCancel ==
    [][ stopped' => /\ disk'.active_session_id = 0
                    /\ ~(loc["loop"].pc = "top" /\ loc'["loop"].pc = "checked") ]_vars

\* C4: a call of step on a state whose active session id is empty or whose
\* pause flag is set creates no session and leaves the sessions, the
\* metrics, the items and the persisted state unchanged.
StepIsNoOpWhenStoppedOrPaused ==
    [][ \A t \in Threads :
          ( /\ loc[t].pc = "loaded"
            /\ loc'[t].pc \in {"loaded", "stepped"}
            /\ (loc[t].st.active_session_id = 0 \/ loc[t].st.session_paused) )
          => /\ loc'[t].st.active_session_id = loc[t].st.active_session_id
             /\ loc'[t].st.session_metrics = loc[t].st.session_metrics
             /\ loc'[t].st.videos = loc[t].st.videos
             /\ disk' = disk ]_vars

\* C5: a step that re-observes an item already in the items map changes its
\* status only from deleted to pending, and only when the Selector said keep
\* and the capture succeeded in that step; approved, rejected and pending
\* are kept.
ReobservationKeepsStatus ==
    [][ \A t \in Threads : \A v \in Vids :
          ( /\ loc[t].pc = "loaded"
            /\ loc'[t].pc = "stepped"
            /\ loc[t].st.videos[v] # NoItem )
          => \/ loc'[t].st.videos[v].status = loc[t].st.videos[v].status
             \/ /\ loc[t].st.videos[v].status = "deleted"
                /\ loc'[t].st.videos[v].status = "pending"
                /\ loc'[t].vid = v
                /\ loc'[t].kok ]_vars

\* a step that re-observed an approved item with a keep decision and a
\* successful capture
ReobservedApprovedItem ==
    \E t \in Threads :
        /\ loc[t].pc = "stepped"
        /\ loc[t].branch = "existing"
        /\ loc[t].kok
        /\ loc[t].st.videos[loc[t].vid].status = "approved"

\* C6: every pending item, in the persisted state and in every state object
\* a step works on, has a non-empty source_url.
PendingHasReference ==
    /\ \A v \in Vids : disk.videos[v].status = "pending" => disk.videos[v].source_url # ""
    /\ \A t \in Threads : \A v \in Vids :
           loc[t].st.videos[v].status = "pending" => loc[t].st.videos[v].source_url # ""

\* a re-observation promoted a deleted item to pending and it was persisted
PromotedItemPersisted ==
    \E t \in Threads :
        /\ loc[t].pc = "stepped"
        /\ loc[t].promoted
        /\ disk.videos[loc[t].vid].status = "pending"
        /\ disk.videos[loc[t].vid].source_url # ""

\* C7: the items map holds at most one entry per content fingerprint.
OneEntryPerFingerprint ==
    \A k \in Keys :
        Cardinality({v \in Vids : v[2] = k /\ disk.videos[v] # NoItem}) <= 1

\* C8: with the safety setting on, no session is still active in the state
\* returned by a step that began with elapsed >= the session limit.
LateStepStopsSession ==
    \A t \in Threads :
        (loc[t].pc = "stepped" /\ loc[t].late /\ loc[t].st.risk_safety_enabled)
        => loc[t].st.active_session_id = 0


(***************************************************************************)
(* Specification SpecAssess: RiskEstimator.assess applied to inputs drawn  *)
(* from a grid chosen around the thresholds of the rules.                  *)
(***************************************************************************)
AssessStarted == {0, 60}
AssessNow == {0, 30, 59, 60, 120, 300, 360, 480, 540, 600, 720, 721, 899, 900, 960}
AssessScroll == {75 * k : k \in 0..MaxScrollUnits}
AssessOpen == {50 * k : k \in 0..MaxOpenUnits}
AssessPause == {0, 30, 600}
AssessCfg == {30, 60, 900}

InitAssess ==
    /\ am \in {SessionMetrics(s, sc, oc, ps) :
                 s \in AssessStarted, sc \in AssessScroll, oc \in AssessOpen, ps \in AssessPause}
    /\ anow \in AssessNow
    /\ acfg \in AssessCfg
    /\ ares = NoResult
    /\ call = NoCall
    /\ ret = NoRet
    /\ disk = V3State
    /\ loc = [t \in Threads |-> Rest(t)]
    /\ now = 0
    /\ nsid = 0
    /\ ncmd = 0
    /\ nstep = 0
    /\ stopped = FALSE
    /\ paused_cmd = FALSE
    /\ decided = [v \in Vids |-> ""]
    /\ store = NoStore
    /\ procs = NoProcs

DoAssess ==
    /\ ares = NoResult
    /\ ares' = assess(am, anow, risk_max(acfg))
    /\ UNCHANGED <<am, anow, acfg, call, ret>>
    /\ UNCHANGED <<store, procs>>
    /\ UNCHANGED svars

NextAssess == DoAssess

SpecAssess == InitAssess /\ [][NextAssess]_vars

(***************************************************************************)
(* Properties of RiskEstimator.assess, checked under SpecAssess.           *)
(***************************************************************************)
\* C9: assess returns the level of the first matching rule of the ordered
\* list 1-11 (and took the return statement of that rule); no later rule
\* overrides an earlier matching one.  The list is written out as the
\* sequence r of rule conditions and the sequence lv of rule levels.
AssessFirstMatchWins ==
    ares # NoResult =>
        LET mx == risk_max(acfg)
            e == elapsed_seconds(am, anow)
            remaining == Max(0, mx - e)
            r == << e >= mx,
                    fatigue_score_ge(am, anow, 90),
                    e >= 60 /\ scroll_rate_per_min_ge(am, anow, 90),
                    e >= 300 /\ scroll_rate_per_min_ge(am, anow, 75)
                             /\ pause_per_min_le(am, e, 5),
                    e >= 300 /\ per_min_ge(am.open_count, e, 20, 1)
                             /\ pause_per_min_le(am, e, 8),
                    remaining <= 180,
                    fatigue_score_ge(am, anow, 70),
                    e >= 60 /\ scroll_rate_per_min_ge(am, anow, 60),
                    e >= 60 /\ per_min_ge(am.open_count, e, 12, 1),
                    e >= 480 /\ pause_per_min_le(am, e, 8),
                    TRUE >>
            lv == << "HIGH_RISK", "HIGH_RISK", "HIGH_RISK", "HIGH_RISK", "HIGH_RISK",
                     "WARNING", "WARNING", "WARNING", "WARNING", "WARNING", "SAFE" >>
            i == CHOOSE k \in 1..11 : r[k] /\ \A j \in 1..(k - 1) : ~r[j]
        IN  ares.level = lv[i] /\ ares.rule = i

\* a result decided by rule 2 (fatigue >= 0.90) on an input that the later
\* rule 6 (remaining <= 180 s, a WARNING) matches as well
AssessFirstMatchWitness ==
    /\ ares.rule = 2
    /\ ares.level = "HIGH_RISK"
    /\ Max(0, risk_max(acfg) - elapsed_seconds(am, anow)) <= 180

\* C10 as stated: for every configured max_session_seconds the result is one
\* of the three levels, remaining = max(0, configured - elapsed), and
\* HIGH_RISK with remaining 0 at elapsed = configured.
AssessRemainingOfConfigured ==
    ares # NoResult =>
        LET e == elapsed_seconds(am, anow)
        IN  /\ ares.level \in {"SAFE", "WARNING", "HIGH_RISK"}
            /\ ares.remaining = Max(0, acfg - e)
            /\ (e = acfg => ares.level = "HIGH_RISK" /\ ares.remaining = 0)

\* C10 amended: the same with M = the configured value raised to the 60 s
\* floor of RiskEstimator.__init__.
AssessRemainingOfEffective ==
    ares # NoResult =>
        LET e == elapsed_seconds(am, anow)
            M == IF acfg < 60 THEN 60 ELSE acfg
        IN  /\ ares.level \in {"SAFE", "WARNING", "HIGH_RISK"}
            /\ ares.remaining = Max(0, M - e)
            /\ (e = M => ares.level = "HIGH_RISK" /\ ares.remaining = 0)

\* an assessment made exactly at the configured limit of 900 s
AssessRemainingWitness ==
    /\ ares # NoResult
    /\ acfg = 900
    /\ elapsed_seconds(am, anow) = 900
    /\ ares.level = "HIGH_RISK"
    /\ ares.remaining = 0

(***************************************************************************)
(* Specification SpecMetrics: SessionMetrics.apply_event applied to a      *)
(* metrics value, one scroll, open or pause event at a time.  The starting *)
(* value is a session at its beginning or well into its life; pause        *)
(* durations are non-negative.                                             *)
(***************************************************************************)
MaxMetricEvents == 2    \* events of one kind applied to the starting value
MetricsScrollStart == {0, 1500}
MetricsNow == {0, 1, 600, 1200, 1500}
MetricsPauses == {0, 8, 600}

InitMetrics ==
    /\ am \in {SessionMetrics(0, sc, 0, 0) : sc \in MetricsScrollStart}
    /\ anow \in MetricsNow
    /\ acfg = MaxSessionSeconds
    /\ ares = NoResult
    /\ call = NoCall
    /\ ret = NoRet
    /\ disk = V3State
    /\ loc = [t \in Threads |-> Rest(t)]
    /\ now = 0
    /\ nsid = 0
    /\ ncmd = 0
    /\ nstep = 0
    /\ stopped = FALSE
    /\ paused_cmd = FALSE
    /\ decided = [v \in Vids |-> ""]
    /\ store = NoStore
    /\ procs = NoProcs

MetricsScroll ==
    /\ \E sc \in MetricsScrollStart : am.scroll_count < sc + MaxMetricEvents
                                      /\ am.scroll_count >= sc
    /\ am' = apply_event(am, ScrollEvent)
    /\ UNCHANGED <<anow, acfg, ares, call, ret>>
    /\ UNCHANGED <<store, procs>>
    /\ UNCHANGED svars

MetricsOpen ==
    /\ am.open_count < MaxMetricEvents
    /\ am' = apply_event(am, OpenEvent)
    /\ UNCHANGED <<anow, acfg, ares, call, ret>>
    /\ UNCHANGED <<store, procs>>
    /\ UNCHANGED svars

MetricsPause ==
    /\ am.pause_seconds < 600 * MaxMetricEvents
    /\ \E sec \in MetricsPauses : am' = apply_event(am, [type |-> "pause", seconds |-> sec])
    /\ UNCHANGED <<anow, acfg, ares, call, ret>>
    /\ UNCHANGED <<store, procs>>
    /\ UNCHANGED svars

NextMetrics ==
    \/ MetricsScroll
    \/ MetricsOpen
    \/ MetricsPause

SpecMetrics == InitMetrics /\ [][NextMetrics]_vars

\* C11: every event with a non-negative pause duration leaves scroll count,
\* open count and cumulative pause seconds at least as large as before, and
\* the fatigue score lies in [0,1] before and after it.
MetricsMonotoneFatigueBounded ==
    [][ /\ am'.scroll_count >= am.scroll_count
        /\ am'.open_count >= am.open_count
        /\ am'.pause_seconds >= am.pause_seconds
        /\ 0 <= fatigue_score_num(am, anow)
        /\ fatigue_score_num(am, anow) <= 100 * fatigue_den(am, anow)
        /\ 0 <= fatigue_score_num(am', anow')
        /\ fatigue_score_num(am', anow') <= 100 * fatigue_den(am', anow') ]_vars

\* a metrics value that took events and whose score before the clamp is
\* below 0 (pause relief exceeds the duration and rate terms)
MetricsFatigueClampedWitness ==
    /\ am.pause_seconds > 0
    /\ am.open_count > 0
    /\ fatigue_num(am, anow) < 0
    /\ fatigue_score_num(am, anow) = 0

(***************************************************************************)
(* Further properties of the session engine, checked under Spec.           *)
(***************************************************************************)
\* C12: while a session id stays the persisted active session id, the
\* persisted scroll count, open count and pause seconds of that session do
\* not decrease and its start time does not change, from one persisted state
\* to the next.
SessionMetricsNeverDecrease ==
    [][ \A sid \in SessionIds :
          ( /\ disk.active_session_id = sid
            /\ disk'.active_session_id = sid
            /\ disk.session_metrics[sid] # NoMetrics )
          => /\ disk'.session_metrics[sid].scroll_count
                  >= disk.session_metrics[sid].scroll_count
             /\ disk'.session_metrics[sid].open_count
                  >= disk.session_metrics[sid].open_count
             /\ disk'.session_metrics[sid].pause_seconds
                  >= disk.session_metrics[sid].pause_seconds
             /\ disk'.session_metrics[sid].started_ts
                  = disk.session_metrics[sid].started_ts ]_vars

(***************************************************************************)
(* Selector (selector.py).  Signals, weights, targets and thresholds are   *)
(* hundredths (0.35 is 35); a score is a sum of products of two such       *)
(* values, so it is in ten-thousandths (1.0 is 10000).                     *)
(***************************************************************************)
Abs(x) == IF x < 0 THEN 0 - x ELSE x

\* _clamp01 on hundredths and on ten-thousandths
clamp01(x) == Max(0, Min(100, x))
clamp01_score(x) == Max(0, Min(10000, x))

\* _clamp01(float(s.get(key, default) or default)): a missing key and a
\* stored 0 both give the default
setting(s, key, default) ==
    LET v == IF key \in DOMAIN s THEN s[key] ELSE default
    IN  clamp01(IF v = 0 THEN default ELSE v)

\* a rhythm term that ignores the target
rhythm_raw(rythme, target) == rythme

\* the rhythm term 1.0 - abs(rythme - target)
rhythm_fit(rythme, target) == 100 - Abs(rythme - target)

\* _score(w_b, w_p, w_r, target) of decide, on the features f
score_of(f, w_b, w_p, w_r, target) ==
    clamp01_score(w_b * (100 - f.banalite) + w_p * f.potentiel_viral
                  + w_r * rhythm_fit(f.rythme, clamp01(target)))

\* a keep threshold read from the viral category's key
threshold_of_viral(s) == setting(s, "threshold_viral", 72)

\* threshold of decide, line 66
threshold_of(s) == setting(s, "score_threshold", 65)

\* Selector.decide(obs, settings)
decide(f, s) ==
    LET score == score_of(f, setting(s, "weight_banalite", 35),
                             setting(s, "weight_potentiel_viral", 35),
                             setting(s, "weight_rythme", 30),
                             setting(s, "rythme_target", 45))
        threshold == threshold_of(s)
        score_viral == score_of(f, setting(s, "viral_w_banalite", 30),
                                   setting(s, "viral_w_potentiel_viral", 45),
                                   setting(s, "viral_w_rythme", 25),
                                   setting(s, "viral_rythme_target", 50))
        score_latent == score_of(f, setting(s, "latent_w_banalite", 45),
                                    setting(s, "latent_w_potentiel_viral", 20),
                                    setting(s, "latent_w_rythme", 35),
                                    setting(s, "latent_rythme_target", 38))
    IN  [fn |-> "decide",
         score |-> score,
         should_keep |-> (score >= 100 * threshold),
         threshold |-> threshold,
         score_viral |-> score_viral,
         score_latent |-> score_latent,
         viral_label |->
             IF score_viral >= 100 * setting(s, "threshold_viral", 72) THEN "VIRAL"
             ELSE IF score_latent >= 100 * setting(s, "threshold_latent", 60) THEN "LATENT"
             ELSE "IGNORER"]

(***************************************************************************)
(* Specification SpecSelect: decide applied to features from a grid and to *)
(* two settings maps, each the union of a choice of keep settings and a    *)
(* choice of category settings.                                            *)
(***************************************************************************)
MaxFeatureUnits == 10   \* features range over 0, 0.1, ..., 1.0
FeatureGrid == {10 * k : k \in 0..MaxFeatureUnits}

NoSettings == [k \in {} |-> 0]

KeepSettings ==
    { NoSettings,
      [k \in {"score_threshold"} |-> 80],
      [k \in {"weight_rythme"} |-> 0],
      [k \in {"rythme_target", "weight_banalite"} |-> 90] }

CategorySettings ==
    { NoSettings,
      [k \in {"threshold_viral", "threshold_latent"} |-> 10],
      [k \in {"viral_w_potentiel_viral", "latent_rythme_target"} |-> 100] }

\* the union of two maps with disjoint domains
merge(a, b) == [k \in DOMAIN a \cup DOMAIN b |-> IF k \in DOMAIN a THEN a[k] ELSE b[k]]

InitSelect ==
    /\ call \in { [fn |-> "decide",
                   features |-> [rythme |-> r, banalite |-> b, potentiel_viral |-> p],
                   settings |-> merge(k, c1),
                   other |-> merge(k, c2)] :
                  r \in FeatureGrid, b \in FeatureGrid, p \in FeatureGrid,
                  k \in KeepSettings, c1 \in CategorySettings, c2 \in CategorySettings }
    /\ ret = NoRet
    /\ am = SessionMetrics(0, 0, 0, 0)
    /\ anow = 0
    /\ acfg = MaxSessionSeconds
    /\ ares = NoResult
    /\ disk = V3State
    /\ loc = [t \in Threads |-> Rest(t)]
    /\ now = 0
    /\ nsid = 0
    /\ ncmd = 0
    /\ nstep = 0
    /\ stopped = FALSE
    /\ paused_cmd = FALSE
    /\ decided = [v \in Vids |-> ""]
    /\ store = NoStore
    /\ procs = NoProcs

\* decide is called once with each of the two settings maps
DoDecide ==
    /\ ret = NoRet
    /\ ret' = [fn |-> "decide",
               first |-> decide(call.features, call.settings),
               second |-> decide(call.features, call.other)]
    /\ UNCHANGED <<am, anow, acfg, ares, call>>
    /\ UNCHANGED <<store, procs>>
    /\ UNCHANGED svars

NextSelect == DoDecide

SpecSelect == InitSelect /\ [][NextSelect]_vars

\* C13: with default settings decide yields keep = (score >= 0.65) with
\* score = clamp01(0.35 (1 - banality) + 0.35 viral + 0.30 (1 - |rhythm - 0.45|));
\* (rhythm 0.9, banality 0.0, viral 0.9) is kept, (0.1, 1.0, 0.0) is not.
DecideDefaultKeep ==
    (ret # NoRet /\ call.settings = NoSettings) =>
        LET f == call.features
            raw == 35 * (100 - f.banalite) + 35 * f.potentiel_viral
                   + 30 * (100 - (IF f.rythme >= 45 THEN f.rythme - 45 ELSE 45 - f.rythme))
            score == IF raw < 0 THEN 0 ELSE IF raw > 10000 THEN 10000 ELSE raw
        IN  /\ ret.first.score = score
            /\ ret.first.should_keep = (score >= 6500)
            /\ (f.rythme = 90 /\ f.banalite = 0 /\ f.potentiel_viral = 90
                  => ret.first.should_keep)
            /\ (f.rythme = 10 /\ f.banalite = 100 /\ f.potentiel_viral = 0
                  => ~ret.first.should_keep)

\* decide(rhythm 0.9, banality 0.0, viral 0.9) with default settings, kept
DecideDefaultKeepWitness ==
    /\ ret # NoRet
    /\ call.settings = NoSettings
    /\ call.features = [rythme |-> 90, banalite |-> 0, potentiel_viral |-> 90]
    /\ ret.first.should_keep
    /\ ret.first.score = 8300

\* C14: two settings maps that agree on every key other than the viral_* and
\* latent_* weights and targets and the two category thresholds give, on the
\* same features, the same score, threshold and keep.
LabelsNeverAffectKeep ==
    ( /\ ret # NoRet
      /\ \A k \in {"weight_banalite", "weight_potentiel_viral", "weight_rythme",
                   "rythme_target", "score_threshold"} :
            /\ (k \in DOMAIN call.settings) = (k \in DOMAIN call.other)
            /\ (k \in DOMAIN call.settings => call.settings[k] = call.other[k]) )
    => /\ ret.first.score = ret.second.score
       /\ ret.first.threshold = ret.second.threshold
       /\ ret.first.should_keep = ret.second.should_keep

\* two calls whose settings differ in category keys only and whose labels
\* differ, with the same keep
LabelsDifferWitness ==
    /\ ret # NoRet
    /\ call.settings # call.other
    /\ ret.first.viral_label = "IGNORER"
    /\ ret.second.viral_label = "VIRAL"
    /\ ret.first.should_keep = ret.second.should_keep
    /\ ~ret.first.should_keep

\* C15: a step that observes an item id not yet in the items map with a keep
\* decision and an empty capture result creates that item with status
\* deleted, in its state object and on disk, and returns no item.
CaptureFailureStoredDeleted ==
    [][ \A t \in Threads :
          ( /\ loc[t].pc = "loaded"
            /\ loc'[t].pc = "stepped"
            /\ loc'[t].sel = "keep"
            /\ ~loc'[t].kok
            /\ loc[t].st.videos[loc'[t].vid] = NoItem )
          => /\ loc'[t].st.videos[loc'[t].vid].status = "deleted"
             /\ disk'.videos[loc'[t].vid].status = "deleted"
             /\ ~loc'[t].item ]_vars

\* a step with a keep decision whose capture gave nothing, on a new item
CaptureFailureWitness ==
    \E t \in Threads :
        /\ loc[t].pc = "stepped"
        /\ loc[t].branch = "new"
        /\ loc[t].sel = "keep"
        /\ loc[t].captures = 1
        /\ ~loc[t].kok
        /\ disk.videos[loc[t].vid].status = "deleted"

\* C16: the capture is called only in a step in which the Selector was
\* called and said keep; a step whose decision is discard calls it zero
\* times.
CaptureOnlyAfterKeep ==
    \A t \in Threads :
        /\ (loc[t].sel = "discard" => loc[t].captures = 0)
        /\ (loc[t].captures > 0 => loc[t].sel = "keep")

\* a completed step whose decision was discard, with no capture call and an
\* item stored without reference
DiscardWithoutCaptureWitness ==
    \E t \in Threads :
        /\ loc[t].pc = "stepped"
        /\ loc[t].sel = "discard"
        /\ loc[t].captures = 0
        /\ loc[t].st.videos[loc[t].vid].status = "deleted"
        /\ loc[t].st.videos[loc[t].vid].source_url = ""

\* C17: a step that ends on the ad path calls neither the Selector nor the
\* capture, records no pause, returns no item and leaves every entry of the
\* items map as it was, in its state object and on disk.
AdStepTouchesNoItem ==
    [][ \A t \in Threads :
          ( /\ loc[t].pc = "loaded"
            /\ loc'[t].pc = "stepped"
            /\ loc'[t].branch = "ad" )
          => LET sid == loc[t].st.active_session_id
             IN  /\ loc'[t].sel = ""
                 /\ loc'[t].captures = 0
                 /\ ~loc'[t].item
                 /\ loc'[t].st.videos = loc[t].st.videos
                 /\ disk'.videos = disk.videos
                 /\ loc'[t].st.session_metrics[sid].pause_seconds
                      = loc[t].st.session_metrics[sid].pause_seconds ]_vars

\* an ad step taken while the items map already holds an item and the
\* session has recorded a pause
AdStepWitness ==
    \E t \in Threads :
        /\ loc[t].pc = "stepped"
        /\ loc[t].branch = "ad"
        /\ \E v \in Vids : loc[t].st.videos[v] # NoItem
        /\ loc[t].st.session_metrics[loc[t].st.active_session_id].pause_seconds > 0

\* C18: whenever the probe of a Start or of a step reports a status other
\* than READY, the operation leaves no active session id in its state object
\* and on disk, hands out no session id, and changes no item and no metrics;
\* a step that had an active session records the stop reason device_<status>.
UnreadyDeviceStopsWithoutEffect ==
    [][ \A t \in Threads :
          ( /\ loc[t].pc \in {"loaded", "start"}
            /\ loc'[t] # loc[t]
            /\ loc'[t].probe \notin {"", "READY"} )
          => /\ loc'[t].st.active_session_id = 0
             /\ disk'.active_session_id = 0
             /\ nsid' = nsid
             /\ loc'[t].st.videos = loc[t].st.videos
             /\ loc'[t].st.session_metrics = loc[t].st.session_metrics
             /\ (loc[t].pc = "loaded" /\ loc[t].st.active_session_id # 0
                   => loc'[t].st.last_session_stop_reason
                        = "device_" \o loc'[t].probe) ]_vars

\* C19: the save of a Pause command clears no session id, and once a Pause
\* command has been persisted the scheduler loop passes its pause check and
\* starts a further Step only after a Resume, Start or Stop command; a Step
\* already in flight is left to complete.
PauseIsDurable ==
    [][ /\ ( loc["cmd"].pc = "pause" /\ loc'["cmd"].pc = "idle"
               /\ disk.active_session_id # 0
               => disk'.active_session_id # 0 )
        /\ ( paused_cmd
               => ~(loc["loop"].pc = "top" /\ loc'["loop"].pc = "checked") ) ]_vars

\* C20: once the persisted status of an item is deleted, no step and no
\* operator command changes it to another value, apart from the promotion
\* to pending by a step that re-observed the item with a keep decision and a
\* captured reference.
DeletionIsTerminal ==
    [][ \A v \in Vids :
          ( /\ disk.videos[v].status = "deleted"
            /\ disk'.videos[v] # NoItem )
          => \/ disk'.videos[v].status = "deleted"
             \/ /\ disk'.videos[v].status = "pending"
                /\ \E t \in Threads :
                     \/ loc[t].promoted /\ loc[t].vid = v
                     \/ loc'[t].promoted /\ loc'[t].vid = v ]_vars

(***************************************************************************)
(* storage.py: load_state_locked and save_state_locked of the threads of   *)
(* one process, and the process stopping at any point.  A save writes the  *)
(* snapshot numbered by the count of saves begun.                          *)
(***************************************************************************)
MaxSaves == 3

MaxStops == 1

StateFile == "state.json"

\* save_state, line 41: state_file.with_suffix(state_file.suffix + ".tmp")
tmp_path_same(state_file) == state_file

tmp_path(state_file) == state_file \o ".tmp"

\* load_state, lines 26-35: a missing or unparsable file loads as V3State()
load_state(files, state_file) ==
    IF files[state_file].complete THEN files[state_file].snapshot ELSE 0

InitStore ==
    /\ store = NoStore
    /\ procs = NoProcs
    /\ call = NoCall
    /\ ret = NoRet
    /\ am = SessionMetrics(0, 0, 0, 0)
    /\ anow = 0
    /\ acfg = MaxSessionSeconds
    /\ ares = NoResult
    /\ disk = V3State
    /\ loc = [t \in Threads |-> Rest(t)]
    /\ now = 0
    /\ nsid = 0
    /\ ncmd = 0
    /\ nstep = 0
    /\ stopped = FALSE
    /\ paused_cmd = FALSE
    /\ decided = [v \in Vids |-> ""]

\* load_state_locked, lines 46-48
LoadStateLocked(t) ==
    /\ store.th[t].pc = "idle"
    /\ store.lock = ""
    /\ store' = [store EXCEPT !.th[t].loaded = load_state(store.files, StateFile)]
    /\ UNCHANGED <<am, anow, acfg, ares, call, ret, procs>>
    /\ UNCHANGED svars

\* save_state_locked, line 52: with _LOCK
SaveLock(t) ==
    /\ store.th[t].pc = "idle"
    /\ store.lock = ""
    /\ store.saves < MaxSaves
    /\ store' = [store EXCEPT !.lock = t,
                              !.saves = @ + 1,
                              !.th[t].pc = "locked",
                              !.th[t].snapshot = store.saves + 1,
                              !.th[t].previous = store.files[StateFile]]
    /\ UNCHANGED <<am, anow, acfg, ares, call, ret, procs>>
    /\ UNCHANGED svars

\* save_state, line 42: write_text opens the temporary file, truncating it
SaveOpen(t) ==
    /\ store.th[t].pc = "locked"
    /\ store' = [store EXCEPT !.files[tmp_path(StateFile)] =
                                  [snapshot |-> store.th[t].snapshot, complete |-> FALSE],
                              !.th[t].pc = "writing"]
    /\ UNCHANGED <<am, anow, acfg, ares, call, ret, procs>>
    /\ UNCHANGED svars

\* save_state, line 42: write_text has written the whole text and closed
SaveWritten(t) ==
    /\ store.th[t].pc = "writing"
    /\ store' = [store EXCEPT !.files[tmp_path(StateFile)].complete = TRUE,
                              !.th[t].pc = "written"]
    /\ UNCHANGED <<am, anow, acfg, ares, call, ret, procs>>
    /\ UNCHANGED svars

\* save_state, line 43: tmp.replace(state_file)
SaveReplace(t) ==
    /\ store.th[t].pc = "written"
    /\ LET tmp == tmp_path(StateFile)
           moved == [store.files EXCEPT ![StateFile] = store.files[tmp]]
       IN  store' = [store EXCEPT !.files = IF tmp = StateFile THEN store.files
                                            ELSE [moved EXCEPT ![tmp] = NoFile],
                                  !.th[t].pc = "replaced"]
    /\ UNCHANGED <<am, anow, acfg, ares, call, ret, procs>>
    /\ UNCHANGED svars

\* save_state_locked, lines 52-53: leaving the with block, after save_state
\* returned or raised (the write or the rename failed)
SaveUnlock(t) ==
    /\ store.th[t].pc \in {"locked", "writing", "written", "replaced"}
    /\ store.lock = t
    /\ store' = [store EXCEPT !.lock = "", !.th[t].pc = "idle"]
    /\ UNCHANGED <<am, anow, acfg, ares, call, ret, procs>>
    /\ UNCHANGED svars

\* the process stops; the files stay as they are, and the next run begins
\* with its threads at rest and a fresh _LOCK (line 11)
ProcessStop ==
    /\ store.stops < MaxStops
    /\ store' = [store EXCEPT !.lock = "",
                              !.stops = @ + 1,
                              !.th = [t \in Threads |-> StoreIdle]]
    /\ UNCHANGED <<am, anow, acfg, ares, call, ret, procs>>
    /\ UNCHANGED svars

NextStore ==
    \/ \E t \in Threads : LoadStateLocked(t)
    \/ \E t \in Threads : SaveLock(t)
    \/ \E t \in Threads : SaveOpen(t)
    \/ \E t \in Threads : SaveWritten(t)
    \/ \E t \in Threads : SaveReplace(t)
    \/ \E t \in Threads : SaveUnlock(t)
    \/ ProcessStop

SpecStore == InitStore /\ [][NextStore]_vars

\* C21: at every instant, a process stop included, the state file is either
\* absent as before the first save or holds a completely written snapshot;
\* while a thread is inside a save it is the snapshot found when the save
\* began or the one being saved; and at most one thread is inside the
\* write of the temporary file.
SaveIsAtomic ==
    /\ store.files[StateFile] = NoFile \/ store.files[StateFile].complete
    /\ \A t \in Threads :
         store.th[t].pc \in {"locked", "writing", "written", "replaced"}
           => store.files[StateFile] \in
                { store.th[t].previous,
                  [snapshot |-> store.th[t].snapshot, complete |-> TRUE] }
    /\ Cardinality({ t \in Threads :
                       store.th[t].pc \in {"locked", "writing", "written", "replaced"} }) <= 1

\* the process stopped after a second save opened the temporary file and
\* before the rename: the temporary file is partial, the state file is whole
StoppedBetweenWriteAndRename ==
    /\ store.stops > 0
    /\ store.files[StateFile] = [snapshot |-> 1, complete |-> TRUE]
    /\ store.files[tmp_path(StateFile)] = [snapshot |-> 2, complete |-> FALSE]

(***************************************************************************)
(* main.py: processes launched with an environment, the named mutex of     *)
(* _acquire_single_instance_lock, and the state file load_v3_config gives  *)
(* each of them.  Paths are taken as already resolved; the truncated SHA-1 *)
(* of the key is taken as one-to-one on the few keys used here.            *)
(***************************************************************************)
MaxLaunches == 2

DefaultDataDir == "/repo/storage/v3"

EnvStateFiles == {"", "/data/state.json", "/repo/storage/v3/state.json"}

EnvDataDirs == {"", "/data"}

\* load_v3_config, lines 51-52
state_file_of(env) ==
    IF env.V3_STATE_FILE # "" THEN env.V3_STATE_FILE
    ELSE (IF env.V3_DATA_DIR # "" THEN env.V3_DATA_DIR ELSE DefaultDataDir)
         \o "/state.json"

\* _acquire_single_instance_lock, lines 29-30
state_key(env) ==
    IF env.V3_STATE_FILE # "" THEN env.V3_STATE_FILE ELSE "default"

\* _acquire_single_instance_lock, lines 31-32
mutex_name(env) == "Global\\snap-bot-v3-main-" \o state_key(env)

\* the named mutexes that exist: those some live process holds a handle of
held_mutexes == { procs[p].mutex : p \in { q \in Procs : procs[q].mutex # "" } }

InitProcs ==
    /\ procs = NoProcs
    /\ store = NoStore
    /\ call = NoCall
    /\ ret = NoRet
    /\ am = SessionMetrics(0, 0, 0, 0)
    /\ anow = 0
    /\ acfg = MaxSessionSeconds
    /\ ares = NoResult
    /\ disk = V3State
    /\ loc = [t \in Threads |-> Rest(t)]
    /\ now = 0
    /\ nsid = 0
    /\ ncmd = 0
    /\ nstep = 0
    /\ stopped = FALSE
    /\ paused_cmd = FALSE
    /\ decided = [v \in Vids |-> ""]

\* py -m bot.v3.main in some environment (lines 74-75)
Launch(p) ==
    /\ procs[p].pc \in {"none", "exited"}
    /\ procs[p].launches < MaxLaunches
    /\ \E sf \in EnvStateFiles, dd \in EnvDataDirs :
         procs' = [procs EXCEPT ![p] =
                     [pc |-> "launched",
                      env |-> [V3_STATE_FILE |-> sf, V3_DATA_DIR |-> dd],
                      mutex |-> "",
                      launches |-> procs[p].launches + 1]]
    /\ UNCHANGED <<am, anow, acfg, ares, call, ret, store>>
    /\ UNCHANGED svars

\* _acquire_single_instance_lock, lines 44-58: the mutex is created and the
\* process goes on, or it exists already and the process exits
AcquireLock(p) ==
    /\ procs[p].pc = "launched"
    /\ procs' = IF mutex_name(procs[p].env) \in held_mutexes
                THEN [procs EXCEPT ![p].pc = "exited"]
                ELSE [procs EXCEPT ![p].pc = "locked",
                                   ![p].mutex = mutex_name(procs[p].env)]
    /\ UNCHANGED <<am, anow, acfg, ares, call, ret, store>>
    /\ UNCHANGED svars

\* _acquire_single_instance_lock, lines 45-46 and 61-64: WinDLL or
\* CreateMutexW fails, the process exits
AcquireFails(p) ==
    /\ procs[p].pc = "launched"
    /\ procs' = [procs EXCEPT ![p].pc = "exited"]
    /\ UNCHANGED <<am, anow, acfg, ares, call, ret, store>>
    /\ UNCHANGED svars

\* _run_v3, lines 67-71: run() loads the configuration and starts the loops
RunV3(p) ==
    /\ procs[p].pc = "locked"
    /\ procs' = [procs EXCEPT ![p].pc = "running"]
    /\ UNCHANGED <<am, anow, acfg, ares, call, ret, store>>
    /\ UNCHANGED svars

\* the process ends; its handle closes and the mutex goes with it
ProcessExit(p) ==
    /\ procs[p].pc \in {"locked", "running"}
    /\ procs' = [procs EXCEPT ![p].pc = "exited", ![p].mutex = ""]
    /\ UNCHANGED <<am, anow, acfg, ares, call, ret, store>>
    /\ UNCHANGED svars

NextProcs ==
    \/ \E p \in Procs : Launch(p)
    \/ \E p \in Procs : AcquireLock(p)
    \/ \E p \in Procs : AcquireFails(p)
    \/ \E p \in Procs : RunV3(p)
    \/ \E p \in Procs : ProcessExit(p)

SpecProcs == InitProcs /\ [][NextProcs]_vars

\* C22: no two processes run the loops against the same state file, however
\* the environment of each designates it, and a process that runs the loops
\* holds the guard.
SingleInstancePerStateFile ==
    /\ \A p \in Procs : \A q \in Procs \ {p} :
         procs[p].pc = "running" /\ procs[q].pc = "running"
           => state_file_of(procs[p].env) # state_file_of(procs[q].env)
    /\ \A p \in Procs : procs[p].pc = "running" => procs[p].mutex # ""

(***************************************************************************)
(* temporal_analysis.py: extract_metrics_from_ocr_text on a text whose     *)
(* [OCR_RIGHT_COLUMN] section is not blank.  The section is a sequence of  *)
(* rows; a row holds one count token or none (an icon alone).  A token is  *)
(* its integer part, one decimal digit and its suffix.  None is Unknown.   *)
(***************************************************************************)
MaxRows == 5

Unknown == 0 - 1

NoToken == [int |-> 0, frac |-> 0, suf |-> "-"]

Token(i, f, s) == [int |-> i, frac |-> f, suf |-> s]

RowTokens == { NoToken, Token(1, 2, "K"), Token(340, 0, ""), Token(12, 0, ""), Token(5, 0, "") }

\* parse_compact_count, lines 123-161, without the suffix
parse_plain_count(tok) == tok.int

\* parse_compact_count, lines 123-161: float(num) * mult, rounded half to even
parse_compact_count(tok) ==
    LET mult == IF tok.suf \in {"k", "K"} THEN 1000
                ELSE IF tok.suf \in {"m", "M"} THEN 1000000 ELSE 1
        tenths == (tok.int * 10 + tok.frac) * mult
        q == tenths \div 10
        r == tenths % 10
    IN  IF r > 5 \/ (r = 5 /\ q % 2 = 1) THEN q + 1 ELSE q

RECURSIVE extract_counts(_)
\* _extract_counts_in_order, lines 200-213: the counts in order of appearance
extract_counts(rows) ==
    IF rows = <<>> THEN <<>>
    ELSE IF Head(rows) = NoToken THEN extract_counts(Tail(rows))
    ELSE <<parse_compact_count(Head(rows))>> \o extract_counts(Tail(rows))

RECURSIVE dedupe(_)
\* _extract_counts_in_order, lines 226-231: drop sequential repeats
dedupe(out) ==
    IF Len(out) <= 1 THEN out
    ELSE LET front == dedupe(SubSeq(out, 1, Len(out) - 1))
         IN  IF front[Len(front)] = out[Len(out)] THEN front
             ELSE Append(front, out[Len(out)])

\* extract_metrics_from_ocr_text, lines 234-258
extract_metrics_from_ocr_text(rows) ==
    LET ordered == dedupe(extract_counts(rows))
        at(k) == IF Len(ordered) >= k THEN ordered[k] ELSE Unknown
    IN  [ likes |-> at(1), comments |-> at(2), remixes |-> at(3),
          sends |-> at(4), saves |-> at(5), shares |-> at(4), views |-> Unknown ]

RECURSIVE RowSeqs(_)
RowSeqs(n) ==
    IF n = 0 THEN {<<>>}
    ELSE RowSeqs(n - 1) \cup { Append(s, t) : s \in { x \in RowSeqs(n - 1) : Len(x) = n - 1 },
                                             t \in RowTokens }

InitExtract ==
    /\ call \in { [fn |-> "extract", rows |-> rows] : rows \in RowSeqs(MaxRows) \ {<<>>} }
    /\ ret = NoRet
    /\ am = SessionMetrics(0, 0, 0, 0)
    /\ anow = 0
    /\ acfg = MaxSessionSeconds
    /\ ares = NoResult
    /\ disk = V3State
    /\ loc = [t \in Threads |-> Rest(t)]
    /\ now = 0
    /\ nsid = 0
    /\ ncmd = 0
    /\ nstep = 0
    /\ stopped = FALSE
    /\ paused_cmd = FALSE
    /\ decided = [v \in Vids |-> ""]
    /\ store = NoStore
    /\ procs = NoProcs

DoExtract ==
    /\ ret = NoRet
    /\ ret' = [fn |-> "extract", metrics |-> extract_metrics_from_ocr_text(call.rows)]
    /\ UNCHANGED <<am, anow, acfg, ares, call>>
    /\ UNCHANGED <<store, procs>>
    /\ UNCHANGED svars

NextExtract == DoExtract

SpecExtract == InitExtract /\ [][NextExtract]_vars

\* C23 as stated: the rows 1.2K, 340, 12, 5 give likes 1200, comments 340,
\* sends 12, saves 5 and remixes unknown.
ExtractExampleAsClaimed ==
    ( /\ ret # NoRet
      /\ call.rows = <<Token(1, 2, "K"), Token(340, 0, ""), Token(12, 0, ""), Token(5, 0, "")>> )
    => /\ ret.metrics.likes = 1200
       /\ ret.metrics.comments = 340
       /\ ret.metrics.sends = 12
       /\ ret.metrics.saves = 5
       /\ ret.metrics.remixes = Unknown

\* C23 as the code has it: the counts are assigned by position in the order
\* likes, comments, remixes, sends, saves, so the rows 1.2K, 340, 12, 5 give
\* likes 1200, comments 340, remixes 12, sends 5 and saves unknown; a
\* position the column has no count for stays unknown, shares repeats sends
\* and views is unknown.
ExtractIsPositional ==
    ret # NoRet =>
      LET m == ret.metrics
          held == Cardinality({ i \in 1..Len(call.rows) : call.rows[i] # NoToken })
          known == Cardinality({ f \in {"likes", "comments", "remixes", "sends", "saves"} :
                                   m[f] # Unknown })
      IN  /\ ( call.rows = <<Token(1, 2, "K"), Token(340, 0, ""), Token(12, 0, ""),
                             Token(5, 0, "")>>
                 => /\ m.likes = 1200 /\ m.comments = 340 /\ m.remixes = 12
                    /\ m.sends = 5 /\ m.saves = Unknown )
          /\ known <= held
          /\ (held = 0 => known = 0)
          /\ (m.comments # Unknown => m.likes # Unknown)
          /\ (m.remixes # Unknown => m.comments # Unknown)
          /\ (m.sends # Unknown => m.remixes # Unknown)
          /\ (m.saves # Unknown => m.sends # Unknown)
          /\ m.shares = m.sends
          /\ m.views = Unknown

\* the example of the claim has been extracted
ExtractExampleWitness ==
    /\ ret # NoRet
    /\ call.rows = <<Token(1, 2, "K"), Token(340, 0, ""), Token(12, 0, ""), Token(5, 0, "")>>
    /\ ret.metrics.saves = Unknown

(***************************************************************************)
(* temporal_analysis.py: parse_relative_pub_time.  A text is a sequence of *)
(* tokens, a number or a word; "il y a" and "AGE_SECONDS=" count as one    *)
(* word each.  Times and ages are whole seconds (age_minutes of the source *)
(* is the age in seconds divided by 60).  None is Unknown.                 *)
(***************************************************************************)
MaxTextLen == 3

Num(n) == [kind |-> "num", n |-> n, w |-> ""]

Word(w) == [kind |-> "word", n |-> 0, w |-> w]

TextNumbers == {45, 2}

TextWords ==
    {"il y a", "min", "h", "j", "sem", "minutes", "hours", "ago", "nice", "video",
     "AGE_SECONDS="}

TextTokens == { Num(n) : n \in TextNumbers } \cup { Word(w) : w \in TextWords }

CaptureTimes == {2000000}

\* _REL_TIME_PATTERNS, lines 39-55, in list order: what must stand before
\* the number, the words accepted after it, what must follow, and the unit
REL_TIME_PATTERNS ==
    << [before |-> "il y a", words |-> {"min", "minute", "minutes"}, after |-> "", unit |-> "minutes"],
       [before |-> "il y a", words |-> {"h", "heure", "heures"}, after |-> "", unit |-> "hours"],
       [before |-> "il y a", words |-> {"j", "jour", "jours"}, after |-> "", unit |-> "days"],
       [before |-> "il y a", words |-> {"sem", "semaine", "semaines"}, after |-> "", unit |-> "weeks"],
       [before |-> "", words |-> {"min", "mins"}, after |-> "", unit |-> "minutes"],
       [before |-> "", words |-> {"h", "heure", "heures"}, after |-> "", unit |-> "hours"],
       [before |-> "", words |-> {"j", "jour", "jours"}, after |-> "", unit |-> "days"],
       [before |-> "", words |-> {"sem", "semaine", "semaines"}, after |-> "", unit |-> "weeks"],
       [before |-> "", words |-> {"minute", "minutes"}, after |-> "ago", unit |-> "minutes"],
       [before |-> "", words |-> {"hour", "hours"}, after |-> "ago", unit |-> "hours"],
       [before |-> "", words |-> {"day", "days"}, after |-> "ago", unit |-> "days"],
       [before |-> "", words |-> {"week", "weeks"}, after |-> "ago", unit |-> "weeks"] >>

\* rx.search: the pattern matches with its number at position i of the text
matches_at(text, i, pat) ==
    /\ i \in 1..Len(text)
    /\ text[i].kind = "num"
    /\ i + 1 <= Len(text)
    /\ text[i + 1].kind = "word"
    /\ text[i + 1].w \in pat.words
    /\ (pat.before # "" => i > 1 /\ text[i - 1] = Word(pat.before))
    /\ (pat.after # "" => i + 2 <= Len(text) /\ text[i + 2] = Word(pat.after))

\* rx.search and m.group(1), lines 99-105: the number of the leftmost match,
\* Unknown when the pattern matches nowhere
search(text, pat) ==
    LET at == { i \in 1..Len(text) : matches_at(text, i, pat) }
    IN  IF at = {} THEN Unknown
        ELSE text[CHOOSE i \in at : \A j \in at : i <= j].n

\* lines 107-118: timedelta of n units, in seconds
delta_seconds(unit, n) ==
    IF unit = "minutes" THEN 60 * n
    ELSE IF unit = "hours" THEN 3600 * n
    ELSE IF unit = "days" THEN 86400 * n
    ELSE 604800 * n

\* line 120, with the capture time as a default
no_match_now(t_capture) == [t_pub |-> t_capture, age_seconds |-> 0]

\* lines 84-85 and 120: return None, None
no_match(t_capture) == [t_pub |-> Unknown, age_seconds |-> Unknown]

\* lines 87-96: the AGE_SECONDS=<n> override
age_override(text) ==
    LET at == { i \in 1..Len(text) :
                  /\ text[i] = Word("AGE_SECONDS=")
                  /\ i + 1 <= Len(text)
                  /\ text[i + 1].kind = "num" }
    IN  IF at = {} THEN Unknown
        ELSE text[(CHOOSE i \in at : \A j \in at : i <= j) + 1].n

RECURSIVE first_pattern(_, _)
\* lines 98-118: the first pattern of the list that matches
first_pattern(text, k) ==
    IF k > Len(REL_TIME_PATTERNS) THEN 0
    ELSE IF search(text, REL_TIME_PATTERNS[k]) # Unknown THEN k
    ELSE first_pattern(text, k + 1)

\* parse_relative_pub_time, lines 73-120
parse_relative_pub_time(text, t_capture) ==
    IF text = <<>> THEN no_match(t_capture)
    ELSE IF age_override(text) # Unknown
    THEN [t_pub |-> t_capture - age_override(text), age_seconds |-> age_override(text)]
    ELSE LET k == first_pattern(text, 1)
         IN  IF k = 0 THEN no_match(t_capture)
             ELSE LET pat == REL_TIME_PATTERNS[k]
                      delta == delta_seconds(pat.unit, search(text, pat))
                  IN  [t_pub |-> t_capture - delta, age_seconds |-> delta]

RECURSIVE Texts(_)
Texts(n) ==
    IF n = 0 THEN {<<>>}
    ELSE Texts(n - 1) \cup { Append(s, t) : s \in { x \in Texts(n - 1) : Len(x) = n - 1 },
                                           t \in TextTokens }

InitParse ==
    /\ call \in { [fn |-> "parse", text |-> text, t_capture |-> t] :
                    text \in Texts(MaxTextLen), t \in CaptureTimes }
    /\ ret = NoRet
    /\ am = SessionMetrics(0, 0, 0, 0)
    /\ anow = 0
    /\ acfg = MaxSessionSeconds
    /\ ares = NoResult
    /\ disk = V3State
    /\ loc = [t \in Threads |-> Rest(t)]
    /\ now = 0
    /\ nsid = 0
    /\ ncmd = 0
    /\ nstep = 0
    /\ stopped = FALSE
    /\ paused_cmd = FALSE
    /\ decided = [v \in Vids |-> ""]
    /\ store = NoStore
    /\ procs = NoProcs

DoParse ==
    /\ ret = NoRet
    /\ ret' = [fn |-> "parse", pub |-> parse_relative_pub_time(call.text, call.t_capture)]
    /\ UNCHANGED <<am, anow, acfg, ares, call>>
    /\ UNCHANGED <<store, procs>>
    /\ UNCHANGED svars

NextParse == DoParse

SpecParse == InitParse /\ [][NextParse]_vars

\* C24: an age is returned only when the text holds a number followed by a
\* unit word of minutes, hours, days or weeks, or the AGE_SECONDS override
\* followed by a number; "il y a 45 min" at capture time T gives the age 45
\* minutes and the publish time T minus 45 minutes; a text with no such
\* phrase gives age unknown and publish time unknown; and a returned age is
\* never negative and always the capture time minus the publish time.
ParseAgeOnlyWhenExplicit ==
    ret # NoRet =>
      LET text == call.text
          units == {"min", "mins", "minute", "minutes", "h", "heure", "heures", "hour", "hours",
                    "j", "jour", "jours", "day", "days", "sem", "semaine", "semaines",
                    "week", "weeks"}
          explicit == \E i \in 1..(Len(text) - 1) :
                         \/ (text[i + 1].kind = "num" /\ text[i] = Word("AGE_SECONDS="))
                         \/ (text[i].kind = "num" /\ text[i + 1].kind = "word"
                                                  /\ text[i + 1].w \in units)
      IN  /\ (ret.pub.age_seconds # Unknown => explicit)
          /\ (~explicit => ret.pub = [t_pub |-> Unknown, age_seconds |-> Unknown])
          /\ (text = <<Word("il y a"), Num(45), Word("min")>>
                => ret.pub = [t_pub |-> call.t_capture - 45 * 60, age_seconds |-> 45 * 60])
          /\ (text = <<Word("nice"), Word("video")>>
                => ret.pub = [t_pub |-> Unknown, age_seconds |-> Unknown])
          /\ (ret.pub.age_seconds = Unknown <=> ret.pub.t_pub = Unknown)
          /\ (ret.pub.age_seconds # Unknown
                => /\ ret.pub.age_seconds >= 0
                   /\ ret.pub.t_pub = call.t_capture - ret.pub.age_seconds)

\* "nice video" has been parsed and gave no age
ParseNoPhraseWitness ==
    /\ ret # NoRet
    /\ call.text = <<Word("nice"), Word("video")>>
    /\ ret.pub.age_seconds = Unknown

(***************************************************************************)
(* stv_refresh.py: the vote over the samples of refresh_stv_from_url and   *)
(* the sanity check of the voted views.  A sample is the record of seven   *)
(* counters extract_metrics_from_ocr_text returns; None is Unknown.        *)
(***************************************************************************)
MaxSamples == 3

AbsMaxViews == 200000000

MaxViewsLikeRatio == 500

MetricKeys == {"likes", "comments", "sends", "saves", "remixes", "shares", "views"}

Sample(likes, sends, views) ==
    [ likes |-> likes, comments |-> Unknown, sends |-> sends, saves |-> Unknown,
      remixes |-> Unknown, shares |-> Unknown, views |-> views ]

SampleGrid ==
    { Sample(l, s, v) : l \in {Unknown, 100, 1201}, s \in {Unknown, 12},
                        v \in {Unknown, 50, 40000, 999999999} }

RECURSIVE insert_sorted(_, _)
insert_sorted(v, sorted_vals) ==
    IF sorted_vals = <<>> THEN <<v>>
    ELSE IF v <= Head(sorted_vals) THEN <<v>> \o sorted_vals
    ELSE <<Head(sorted_vals)>> \o insert_sorted(v, Tail(sorted_vals))

RECURSIVE sorted(_)
\* _median, line 519: sorted(int(v) for v in vals)
sorted(vals) ==
    IF vals = <<>> THEN <<>> ELSE insert_sorted(Head(vals), sorted(Tail(vals)))

\* the largest value in place of the median
largest(vals) == IF vals = <<>> THEN Unknown ELSE sorted(vals)[Len(vals)]

\* _median, lines 516-523; round is to the even neighbour on a half
median(vals) ==
    IF vals = <<>> THEN Unknown
    ELSE LET vals2 == sorted(vals)
             mid == Len(vals2) \div 2
         IN  IF Len(vals2) % 2 = 1 THEN vals2[mid + 1]
             ELSE LET sum == vals2[mid] + vals2[mid + 1]
                      q == sum \div 2
                  IN  IF sum % 2 = 1 /\ q % 2 = 1 THEN q + 1 ELSE q

RECURSIVE vals_of(_, _)
\* line 563: the values of key k the samples hold, in sample order
vals_of(samples, k) ==
    IF samples = <<>> THEN <<>>
    ELSE IF Head(samples)[k] = Unknown THEN vals_of(Tail(samples), k)
    ELSE <<Head(samples)[k]>> \o vals_of(Tail(samples), k)

\* lines 560-564
vote(samples) == [k \in MetricKeys |-> median(vals_of(samples, k))]

\* _sanitize_metrics, lines 525-558
sanitize_metrics(m) ==
    IF m.views = Unknown THEN m
    ELSE IF m.views <= 0 THEN [m EXCEPT !.views = Unknown]
    ELSE IF m.views > AbsMaxViews THEN [m EXCEPT !.views = Unknown]
    ELSE IF m.likes # Unknown /\ m.likes > 0
    THEN IF m.views > MaxViewsLikeRatio * m.likes THEN [m EXCEPT !.views = Unknown]
         ELSE IF m.views < m.likes THEN [m EXCEPT !.views = Unknown]
         ELSE m
    ELSE m

\* lines 570-572: shares repeats sends when only sends is known
alias_shares(m) ==
    IF m.shares = Unknown /\ m.sends # Unknown THEN [m EXCEPT !.shares = m.sends] ELSE m

RECURSIVE SampleSeqs(_)
SampleSeqs(n) ==
    IF n = 0 THEN {<<>>}
    ELSE SampleSeqs(n - 1) \cup
         { Append(s, t) : s \in { x \in SampleSeqs(n - 1) : Len(x) = n - 1 }, t \in SampleGrid }

InitVote ==
    /\ call \in { [fn |-> "vote", samples |-> ss] : ss \in SampleSeqs(MaxSamples) \ {<<>>} }
    /\ ret = NoRet
    /\ am = SessionMetrics(0, 0, 0, 0)
    /\ anow = 0
    /\ acfg = MaxSessionSeconds
    /\ ares = NoResult
    /\ disk = V3State
    /\ loc = [t \in Threads |-> Rest(t)]
    /\ now = 0
    /\ nsid = 0
    /\ ncmd = 0
    /\ nstep = 0
    /\ stopped = FALSE
    /\ paused_cmd = FALSE
    /\ decided = [v \in Vids |-> ""]
    /\ store = NoStore
    /\ procs = NoProcs

DoVote ==
    /\ ret = NoRet
    /\ ret' = [fn |-> "vote",
               voted |-> vote(call.samples),
               sanitized |-> sanitize_metrics(vote(call.samples)),
               metrics |-> alias_shares(sanitize_metrics(vote(call.samples)))]
    /\ UNCHANGED <<am, anow, acfg, ares, call>>
    /\ UNCHANGED <<store, procs>>
    /\ UNCHANGED svars

NextVote == DoVote

SpecVote == InitVote /\ [][NextVote]_vars

\* C25: for each of the seven counters the vote is unknown exactly when no
\* sample holds a value for it, and otherwise is a median of the values
\* held (at most half of them are below it and at most half above it, and
\* with an odd number of values it is one of them); the sanity check leaves
\* every counter but views as voted and drops voted views above the
\* absolute cap, so that one sample with views 999,999,999 among three, the
\* other two without views, ends with views unknown.
VoteIsMedianThenSanitized ==
    ret # NoRet =>
      LET ss == call.samples
          n == Len(ss)
          held(k) == { i \in 1..n : ss[i][k] # Unknown }
      IN  /\ \A k \in MetricKeys :
                /\ (ret.voted[k] = Unknown <=> held(k) = {})
                /\ held(k) # {} =>
                     /\ 2 * Cardinality({ i \in held(k) : ss[i][k] < ret.voted[k] })
                          <= Cardinality(held(k))
                     /\ 2 * Cardinality({ i \in held(k) : ss[i][k] > ret.voted[k] })
                          <= Cardinality(held(k))
                     /\ (Cardinality(held(k)) % 2 = 1
                           => \E i \in held(k) : ss[i][k] = ret.voted[k])
          /\ \A k \in MetricKeys \ {"views"} : ret.sanitized[k] = ret.voted[k]
          /\ ret.sanitized.views \in {Unknown, ret.voted.views}
          /\ (ret.voted.views > AbsMaxViews => ret.sanitized.views = Unknown)
          /\ ( n = 3 /\ Cardinality(held("views")) = 1
                     /\ (\E i \in 1..n : ss[i].views = 999999999)
                 => ret.sanitized.views = Unknown /\ ret.metrics.views = Unknown )

\* three samples, one with views 999,999,999 and two without views, voted
\* to 999,999,999 and sanitized to unknown
VoteOutlierWitness ==
    /\ ret # NoRet
    /\ Len(call.samples) = 3
    /\ call.samples[1].views = 999999999
    /\ call.samples[2].views = Unknown
    /\ call.samples[3].views = Unknown
    /\ ret.voted.views = 999999999
    /\ ret.sanitized.views = Unknown

(***************************************************************************)
(* temporal_analysis.py: compute_stv, classify and analyze_from_meta on a  *)
(* meta whose ocr_metrics holds at least the likes.  The age is what       *)
(* parse_relative_pub_time gives for the text, in seconds.  A velocity and *)
(* the STV are exact fractions num / den; the fraction with den 0 is None. *)
(***************************************************************************)
AnalyzeTexts ==
    { <<>>,
      <<Word("nice"), Word("video")>>,
      <<Word("il y a"), Num(45), Word("min")>>,
      <<Num(2), Word("j")>>,
      <<Num(2), Word("h")>>,
      <<Word("AGE_SECONDS="), Num(0)>> }

AnalyzeMetrics ==
    { [ likes |-> l, comments |-> c, sends |-> s, saves |-> sv, remixes |-> r,
        shares |-> sh, views |-> Unknown ] :
        l \in {0, 500, 100000}, c \in {Unknown, 20, 5000}, s \in {Unknown, 12},
        sv \in {Unknown, 5}, r \in {Unknown, 3}, sh \in {Unknown, 40} }

\* a velocity or an STV that is None
NoFraction == [num |-> 0, den |-> 0]

\* compute_stv, lines 401-407: count / age_minutes
velocity(count, age_seconds) ==
    IF count = Unknown THEN NoFraction ELSE [num |-> 60 * count, den |-> age_seconds]

\* compute_stv, lines 409-425, for age_minutes > 0: the legacy score, or its
\* mean with the enriched score when sends, saves or remixes is known
stv_of(likes, shares, comments, sends, saves, remixes, age_seconds) ==
    LET legacy == 45 * likes + 40 * shares + 15 * comments
        enriched == 30 * likes + 10 * comments
                    + 30 * (IF sends # Unknown THEN sends ELSE shares)
                    + (IF saves # Unknown THEN 20 * saves ELSE 0)
                    + (IF remixes # Unknown THEN 10 * remixes ELSE 0)
        rich == sends # Unknown \/ saves # Unknown \/ remixes # Unknown
        x == IF rich THEN legacy + enriched ELSE 2 * legacy
    IN  [num |-> 3 * x, den |-> 10 * age_seconds]

\* classify without the guard of lines 432-433
classify_unguarded(age_seconds, likes, comments, stv) ==
    IF (likes # Unknown /\ likes >= 100000) \/ (comments # Unknown /\ comments >= 5000)
    THEN "Deja explosee" ELSE "Normale"

\* classify, lines 430-454, with the default thresholds 3.0, 1.2 and 0.25
classify(age_seconds, likes, comments, stv) ==
    IF age_seconds = Unknown \/ stv = NoFraction THEN "Normale"
    ELSE IF age_seconds > 360 * 60
            /\ ((likes # Unknown /\ likes >= 100000) \/ (comments # Unknown /\ comments >= 5000))
    THEN "Deja explosee"
    ELSE IF age_seconds < 120 * 60 /\ stv.num >= 3 * stv.den
    THEN "Pre-virale (phase test)"
    ELSE IF 5 * stv.num >= 6 * stv.den THEN "Prometteuse"
    ELSE IF 4 * stv.num <= stv.den THEN "Sous-performante"
    ELSE "Normale"

\* analyze_from_meta with compute_stv accepting an age of 0
analyze_from_meta_any_age(text, m, t_capture) ==
    LET pub == parse_relative_pub_time(text, t_capture)
        age == pub.age_seconds
        computable == /\ age # Unknown
                      /\ m.likes # Unknown
                      /\ (m.shares # Unknown \/ m.sends # Unknown)
                      /\ m.comments # Unknown
        shares == IF m.shares # Unknown THEN m.shares ELSE m.sends
        vel(count) == IF computable THEN velocity(count, age) ELSE NoFraction
        stv == IF computable
               THEN stv_of(m.likes, shares, m.comments, m.sends, m.saves, m.remixes, age)
               ELSE NoFraction
    IN  [ t_pub |-> pub.t_pub,
          age_seconds |-> age,
          likes |-> m.likes, shares |-> m.shares, sends |-> m.sends, saves |-> m.saves,
          remixes |-> m.remixes, comments |-> m.comments, views |-> m.views,
          like_velocity |-> vel(m.likes),
          share_velocity |-> vel(shares),
          send_velocity |-> vel(m.sends),
          save_velocity |-> vel(m.saves),
          remix_velocity |-> vel(m.remixes),
          comment_velocity |-> vel(m.comments),
          stv |-> stv,
          category |-> classify(age, m.likes, m.comments, stv) ]

\* analyze_from_meta, lines 457-560
analyze_from_meta(text, m, t_capture) ==
    LET pub == parse_relative_pub_time(text, t_capture)
        age == pub.age_seconds
        computable == /\ age # Unknown
                      /\ m.likes # Unknown
                      /\ (m.shares # Unknown \/ m.sends # Unknown)
                      /\ m.comments # Unknown
                      /\ age > 0
        shares == IF m.shares # Unknown THEN m.shares ELSE m.sends
        vel(count) == IF computable THEN velocity(count, age) ELSE NoFraction
        stv == IF computable
               THEN stv_of(m.likes, shares, m.comments, m.sends, m.saves, m.remixes, age)
               ELSE NoFraction
    IN  [ t_pub |-> pub.t_pub,
          age_seconds |-> age,
          likes |-> m.likes, shares |-> m.shares, sends |-> m.sends, saves |-> m.saves,
          remixes |-> m.remixes, comments |-> m.comments, views |-> m.views,
          like_velocity |-> vel(m.likes),
          share_velocity |-> vel(shares),
          send_velocity |-> vel(m.sends),
          save_velocity |-> vel(m.saves),
          remix_velocity |-> vel(m.remixes),
          comment_velocity |-> vel(m.comments),
          stv |-> stv,
          category |-> classify(age, m.likes, m.comments, stv) ]

InitAnalyze ==
    /\ call \in { [fn |-> "analyze", text |-> text, ocr_metrics |-> m, t_capture |-> t] :
                    text \in AnalyzeTexts, m \in AnalyzeMetrics, t \in CaptureTimes }
    /\ ret = NoRet
    /\ am = SessionMetrics(0, 0, 0, 0)
    /\ anow = 0
    /\ acfg = MaxSessionSeconds
    /\ ares = NoResult
    /\ disk = V3State
    /\ loc = [t \in Threads |-> Rest(t)]
    /\ now = 0
    /\ nsid = 0
    /\ ncmd = 0
    /\ nstep = 0
    /\ stopped = FALSE
    /\ paused_cmd = FALSE
    /\ decided = [v \in Vids |-> ""]
    /\ store = NoStore
    /\ procs = NoProcs

DoAnalyze ==
    /\ ret = NoRet
    /\ ret' = [fn |-> "analyze",
               analysis |-> analyze_from_meta(call.text, call.ocr_metrics, call.t_capture)]
    /\ UNCHANGED <<am, anow, acfg, ares, call>>
    /\ UNCHANGED <<store, procs>>
    /\ UNCHANGED svars

NextAnalyze == DoAnalyze

SpecAnalyze == InitAnalyze /\ [][NextAnalyze]_vars

\* C26: whenever the publish age of the analysis is unknown, its STV and
\* each of its six velocities are unknown and its category is "normal",
\* whatever counters are known.
UnknownAgeGivesNormal ==
    (ret # NoRet /\ ret.analysis.age_seconds = Unknown)
    => /\ ret.analysis.stv = NoFraction
       /\ \A v \in {"like_velocity", "share_velocity", "send_velocity", "save_velocity",
                    "remix_velocity", "comment_velocity"} : ret.analysis[v] = NoFraction
       /\ ret.analysis.category = "Normale"

\* an analysis without age of an item with 100,000 likes, 5,000 comments and
\* known sends
UnknownAgeWitness ==
    /\ ret # NoRet
    /\ ret.analysis.age_seconds = Unknown
    /\ call.text = <<Word("nice"), Word("video")>>
    /\ ret.analysis.likes = 100000
    /\ ret.analysis.comments = 5000
    /\ ret.analysis.sends = 12

(***************************************************************************)
(* A run of consecutive steps of one session that open nothing, with the   *)
(* scroll pause setting at its 0.8 s: session_manager.py 494-599 produces  *)
(* and applies the events, and each step ends with RiskEstimator.assess.   *)
(* The pause recorded is the setting with its jitter (0.5 s to 1.1 s); the *)
(* clock moves by the time a step and the sleep before it take.  The run   *)
(* ends when a step returns HIGH_RISK.                                     *)
(***************************************************************************)
MaxRunSteps == 10

RunGaps == {1, 2, 60}

RunPauses == {5, 8, 11}

RunPaths == {"new", "ad", "recover"}

InitRun ==
    /\ call = [fn |-> "run", steps |-> 0]
    /\ ret = NoRet
    /\ am = SessionMetrics(0, 0, 0, 0)
    /\ anow = 0
    /\ acfg = MaxSessionSeconds
    /\ ares = NoResult
    /\ disk = V3State
    /\ loc = [t \in Threads |-> Rest(t)]
    /\ now = 0
    /\ nsid = 0
    /\ ncmd = 0
    /\ nstep = 0
    /\ stopped = FALSE
    /\ paused_cmd = FALSE
    /\ decided = [v \in Vids |-> ""]
    /\ store = NoStore
    /\ procs = NoProcs

\* one step: step_events, _apply_events (line 599), assess at the time the
\* step ends
RunStep ==
    /\ call.steps < MaxRunSteps
    /\ ares.level # "HIGH_RISK"
    /\ \E gap \in RunGaps, path \in RunPaths, pause_s \in RunPauses :
         LET m == apply_events(am, step_events(path, pause_s, FALSE, 0))
         IN  /\ am' = m
             /\ anow' = anow + gap
             /\ ares' = assess(m, anow + gap, risk_max(acfg))
    /\ call' = [call EXCEPT !.steps = @ + 1]
    /\ UNCHANGED <<acfg, ret>>
    /\ UNCHANGED <<store, procs>>
    /\ UNCHANGED svars

NextRun == RunStep

SpecRun == InitRun /\ [][NextRun]_vars

\* C27: in a run of up to ten steps of one session without open events and
\* with the 0.8 s pause setting, a step assessed before 8 minutes of
\* elapsed session time does not return WARNING.
RunNoWarningBeforeEightMinutes ==
    (ares # NoResult /\ elapsed_seconds(am, anow) < 8 * 60) => ares.level # "WARNING"

\* the tenth step assessed between the warm-up and the eighth minute, with
\* fewer than 0.8 s of pause per minute, returned SAFE
RunTenthStepWitness ==
    /\ call.steps = MaxRunSteps
    /\ elapsed_seconds(am, anow) >= 60
    /\ elapsed_seconds(am, anow) < 8 * 60
    /\ pause_per_min_le(am, elapsed_seconds(am, anow), 8)
    /\ ares.level = "SAFE"

(***************************************************************************)
(* session_loop (telegram/integration.py 763-973) with the calls that can  *)
(* raise.  One tick is one pass of the while loop.  call holds the state   *)
(* file as the loop sees it (disk), the object step_once returned (st2)    *)
(* and, for every tick, which pieces of work were attempted (done) and     *)
(* which of them raised (raised); last keeps the same of the tick before.  *)
(***************************************************************************)
MaxLoopTicks == 4

MaxRaises == 2

LoopWorks == {"load", "step", "preview", "device_alert", "risk_alert", "stop_notice"}

RiskLevels == {"SAFE", "WARNING", "HIGH_RISK"}

\* the fields of V3State the loop reads.  unsent: some pending item has no
\* message_id; device_alert_recent / risk_alert_recent: less than
\* risk_alert_cooldown_seconds passed since last_device_alert_ts /
\* last_risk_alert_ts.
LoopState ==
    [ active_session_id |-> TRUE, session_paused |-> FALSE,
      device_status |-> "READY", unsent |-> FALSE, last_risk_level |-> "SAFE",
      device_alert_recent |-> FALSE, risk_alert_recent |-> FALSE ]

NoTick == [due |-> {}, done |-> {}, raised |-> {}, risk |-> ""]

InitLoop ==
    /\ call = [fn |-> "session_loop", pc |-> "top", disk |-> LoopState,
               st2 |-> LoopState, prev_active |-> FALSE, prev_level |-> "SAFE",
               risk |-> "", due |-> {}, done |-> {}, raised |-> {},
               last |-> NoTick, ticks |-> 0, raises |-> 0]
    /\ ret = NoRet
    /\ am = SessionMetrics(0, 0, 0, 0)
    /\ anow = 0
    /\ acfg = MaxSessionSeconds
    /\ ares = NoResult
    /\ disk = V3State
    /\ loc = [t \in Threads |-> Rest(t)]
    /\ now = 0
    /\ nsid = 0
    /\ ncmd = 0
    /\ nstep = 0
    /\ stopped = FALSE
    /\ paused_cmd = FALSE
    /\ decided = [v \in Vids |-> ""]
    /\ store = NoStore
    /\ procs = NoProcs

\* a call made for the piece of work w raised
raise(c, w) == [c EXCEPT !.raised = @ \cup {w}, !.raises = @ + 1]

attempt(c, w) == [c EXCEPT !.done = @ \cup {w}]

\* the pass ends (continue, the sleep of line 969 or of line 972)
end_tick(c) ==
    [c EXCEPT !.pc = "top", !.ticks = @ + 1,
              !.last = [due |-> c.due, done |-> c.done, raised |-> c.raised,
                        risk |-> c.risk],
              !.due = c.raised, !.done = {}, !.raised = {}, !.risk = ""]

LoopUnchanged ==
    /\ UNCHANGED <<am, anow, acfg, ares, ret, store, procs>>
    /\ UNCHANGED svars

\* lines 766-803: load; continue after a sleep when no session is active or
\* the session is paused
LoopTop ==
    /\ call.pc = "top"
    /\ call.ticks < MaxLoopTicks
    /\ \E raises \in BOOLEAN :
         /\ (raises => call.raises < MaxRaises)
         /\ LET c == attempt(call, "load")
            IN  call' = IF raises THEN [raise(c, "load") EXCEPT !.pc = "except"]
                        ELSE IF ~c.disk.active_session_id \/ c.disk.session_paused
                        THEN end_tick(c)
                        ELSE [c EXCEPT !.pc = "step",
                                       !.prev_level = c.disk.last_risk_level,
                                       !.prev_active = c.disk.active_session_id]
    /\ LoopUnchanged

\* line 805, step_once: load, SessionManager.step (probe, agent, the save of
\* line 234 or of lines 714/778), save.  A step that reaches the assessment
\* stores its level in last_risk_level (session_manager.py 713 and 765); the
\* recovery and ad returns give SAFE and store nothing.  An exception leaves
\* step_once and reaches the handler of line 971.
LoopStepOnce ==
    /\ call.pc = "step"
    /\ \E status \in DeviceStatuses, risk \in RiskLevels, found \in BOOLEAN,
          assessed \in BOOLEAN,
          raise_at \in {"none", "probe", "agent", "save_step", "save_once"} :
         /\ (raise_at # "none" => call.raises < MaxRaises)
         /\ (status # "READY" => raise_at # "agent" /\ risk = "SAFE" /\ ~found)
         /\ (assessed => status = "READY")
         /\ (~assessed => risk = "SAFE" /\ ~found)
         /\ LET c == attempt(call, "step")
                st == IF status # "READY"
                      THEN [c.disk EXCEPT !.active_session_id = FALSE,
                                          !.device_status = status]
                      ELSE [c.disk EXCEPT !.device_status = status,
                                          !.unsent = @ \/ found,
                                          !.last_risk_level =
                                              IF assessed THEN risk ELSE @,
                                          !.active_session_id = risk # "HIGH_RISK"]
            IN  call' =
                  IF raise_at \in {"probe", "agent", "save_step"}
                  THEN [raise(c, "step") EXCEPT !.pc = "except"]
                  ELSE IF raise_at = "save_once"
                  THEN [raise(c, "step") EXCEPT !.pc = "except", !.disk = st]
                  ELSE [c EXCEPT !.pc = "preview", !.disk = st, !.st2 = st,
                                 !.risk = risk]
    /\ LoopUnchanged

\* lines 808-905: one preview for a pending item without message_id.
\* _send_preview keeps its own exceptions and leaves message_id unset; the
\* save of line 860 may raise into the handler of line 903.
LoopPreview ==
    /\ call.pc = "preview"
    /\ \E outcome \in {"sent", "send_failed", "save_raised"} :
         /\ (outcome # "sent" => call.raises < MaxRaises /\ call.st2.unsent)
         /\ LET c == attempt(call, "preview")
                st == [c.st2 EXCEPT !.unsent = FALSE]
            IN  call' =
                  IF ~call.st2.unsent THEN [call EXCEPT !.pc = "device_alert"]
                  ELSE IF outcome = "sent"
                  THEN [c EXCEPT !.pc = "device_alert", !.st2 = st, !.disk = st]
                  ELSE IF outcome = "send_failed"
                  THEN [raise(c, "preview") EXCEPT !.pc = "device_alert",
                                                   !.disk = c.st2]
                  ELSE [raise(c, "preview") EXCEPT !.pc = "device_alert",
                                                   !.st2 = st]
    /\ LoopUnchanged

\* lines 907-923: the alert of a session stopped because the device is gone
LoopDeviceAlert ==
    /\ call.pc = "device_alert"
    /\ LET due_now == /\ call.prev_active
                      /\ ~call.st2.active_session_id
                      /\ call.st2.device_status \in {"DISCONNECTED", "LOCKED"}
                      /\ ~call.st2.device_alert_recent
       IN  \E outcome \in {"sent", "send_raised", "save_raised"} :
             /\ (outcome # "sent" => call.raises < MaxRaises /\ due_now)
             /\ LET c == attempt(call, "device_alert")
                    st == [c.st2 EXCEPT !.device_alert_recent = TRUE]
                IN  call' =
                      IF ~due_now THEN [call EXCEPT !.pc = "risk_alert"]
                      ELSE IF outcome = "sent"
                      THEN [c EXCEPT !.pc = "risk_alert", !.st2 = st, !.disk = st]
                      ELSE IF outcome = "send_raised"
                      THEN [raise(c, "device_alert") EXCEPT !.pc = "risk_alert"]
                      ELSE [raise(c, "device_alert") EXCEPT !.pc = "risk_alert",
                                                            !.st2 = st]
    /\ LoopUnchanged

\* lines 925-958: the risk alert and, in the same try block, the notice of
\* the automatic stop
LoopRiskAlert ==
    /\ call.pc = "risk_alert"
    /\ LET alert == /\ call.risk \in {"WARNING", "HIGH_RISK"}
                    /\ (~call.st2.risk_alert_recent \/ call.risk # call.prev_level)
           notice == call.risk = "HIGH_RISK" /\ ~call.st2.active_session_id
       IN  \E outcome \in {"sent", "send_raised", "save_raised", "notice_raised"} :
             /\ (outcome # "sent" => call.raises < MaxRaises)
             /\ (outcome \in {"send_raised", "save_raised"} => alert)
             /\ (outcome = "notice_raised" => notice)
             /\ LET c1 == IF alert THEN attempt(call, "risk_alert") ELSE call
                    st == IF alert
                          THEN [c1.st2 EXCEPT !.risk_alert_recent = TRUE,
                                              !.last_risk_level = call.risk]
                          ELSE c1.st2
                    c2 == IF notice THEN attempt(c1, "stop_notice") ELSE c1
                IN  call' =
                      IF outcome = "send_raised"
                      THEN [raise(c1, "risk_alert") EXCEPT !.pc = "sleep"]
                      ELSE IF outcome = "save_raised"
                      THEN [raise(c1, "risk_alert") EXCEPT !.pc = "sleep", !.st2 = st]
                      ELSE IF outcome = "notice_raised"
                      THEN [raise(c2, "stop_notice") EXCEPT
                               !.pc = "sleep", !.st2 = st,
                               !.disk = IF alert THEN st ELSE c2.disk]
                      ELSE [c2 EXCEPT !.pc = "sleep", !.st2 = st,
                                      !.disk = IF alert THEN st ELSE c2.disk]
    /\ LoopUnchanged

\* lines 960-970: the sleep at the end of a pass; the cooldowns may run out
LoopSleep ==
    /\ call.pc = "sleep"
    /\ \E cooled \in BOOLEAN :
         call' = [end_tick(call) EXCEPT
                    !.disk.device_alert_recent = @ /\ ~cooled,
                    !.disk.risk_alert_recent = @ /\ ~cooled]
    /\ LoopUnchanged

\* lines 971-972: except Exception: time.sleep(2.0)
LoopExcept ==
    /\ call.pc = "except"
    /\ call' = end_tick(call)
    /\ LoopUnchanged

NextLoop ==
    \/ LoopTop
    \/ LoopStepOnce
    \/ LoopPreview
    \/ LoopDeviceAlert
    \/ LoopRiskAlert
    \/ LoopSleep
    \/ LoopExcept

SpecLoop == InitLoop /\ [][NextLoop]_vars

\* C28: a failure inside a pass of the scheduler loop is contained, the loop
\* goes on to its next pass, and that pass attempts again every piece of
\* work whose call raised in the pass before (a risk alert is no longer owed
\* when the new step is assessed SAFE).  Stated for a pass in which nothing
\* raised.
FailedWorkIsRetried ==
    (call.pc = "top" /\ call.last.raised = {}) =>
        \A w \in call.last.due :
            \/ w \in call.last.done
            \/ (w = "risk_alert" /\ call.last.risk = "SAFE")

(***************************************************************************)
(* The events of one step with their timestamps (mobile_agent/events.py,   *)
(* simulated_agent.py 59-84: ts = now_ts() when the agent builds the       *)
(* event) and their application to the SessionMetrics of the session       *)
(* (session_manager.py 183-185, 494-599; metrics.py 46-53).                *)
(***************************************************************************)
MaxEventSteps == 3

\* seconds between two calls of now_ts() inside one step
EventGaps == {0, 1}

EventPauses == {0, 8}

\* pause_seconds in tenths of a second; last_event_ts as set by line 47;
\* applied lists the events apply_event was called with, in call order
MetricsAt(m, last_event_ts, applied) ==
    [m |-> m, last_event_ts |-> last_event_ts, applied |-> applied]

at(ev, ts) == [type |-> ev.type, seconds |-> ev.seconds, ts |-> ts]

\* the events list of step when it reaches one of its three calls of
\* _apply_events (lines 534, 557, 599): the scroll at t, each later event
\* gap seconds after the one before
events_of_step(path, pause_s, opened, watch_s, t, gap) ==
    LET evs == step_events(path, pause_s, opened, watch_s)
    IN  [i \in 1..Len(evs) |-> at(evs[i], t + (i - 1) * gap)]

RECURSIVE apply_events_reversed(_, _)
RECURSIVE apply_events_at(_, _)

\* _apply_events over the list reversed
apply_events_reversed(mt, events) ==
    IF events = << >> THEN mt
    ELSE LET ev == events[Len(events)]
         IN  apply_events_reversed(
                 MetricsAt(apply_event(mt.m, ev), ev.ts, Append(mt.applied, ev)),
                 SubSeq(events, 1, Len(events) - 1))

\* _apply_events: for ev in events: m.apply_event(ev)
apply_events_at(mt, events) ==
    IF events = << >> THEN mt
    ELSE LET ev == Head(events)
         IN  apply_events_at(
                 MetricsAt(apply_event(mt.m, ev), ev.ts, Append(mt.applied, ev)),
                 Tail(events))

InitEvents ==
    /\ call = [fn |-> "step", steps |-> 0, path |-> "", events |-> << >>,
               before |-> MetricsAt(SessionMetrics(0, 0, 0, 0), 0, << >>)]
    /\ ret = [fn |-> "step", mt |-> MetricsAt(SessionMetrics(0, 0, 0, 0), 0, << >>)]
    /\ am = SessionMetrics(0, 0, 0, 0)
    /\ anow = 0
    /\ acfg = MaxSessionSeconds
    /\ ares = NoResult
    /\ disk = V3State
    /\ loc = [t \in Threads |-> Rest(t)]
    /\ now = 0
    /\ nsid = 0
    /\ ncmd = 0
    /\ nstep = 0
    /\ stopped = FALSE
    /\ paused_cmd = FALSE
    /\ decided = [v \in Vids |-> ""]
    /\ store = NoStore
    /\ procs = NoProcs

\* one step of the session, from the scroll to the call of _apply_events on
\* the path taken
DoStepEvents ==
    /\ call.steps < MaxEventSteps
    /\ \E path \in {"recover", "ad", "normal"}, pause_s \in EventPauses,
          opened \in BOOLEAN, watch_s \in WatchChoices,
          wait \in EventGaps, gap \in EventGaps :
         /\ (path # "normal" => pause_s = 0 /\ ~opened)
         /\ (~opened => watch_s = 15)
         /\ LET t == anow + wait
                events == events_of_step(path, pause_s, opened, watch_s, t, gap)
                before == MetricsAt(ret.mt.m, ret.mt.last_event_ts, << >>)
            IN  /\ call' = [fn |-> "step", steps |-> call.steps + 1, path |-> path,
                            events |-> events, before |-> before]
                /\ ret' = [fn |-> "step", mt |-> apply_events_at(before, events)]
                /\ anow' = t + (Len(events) - 1) * gap
    /\ UNCHANGED <<am, acfg, ares, store, procs>>
    /\ UNCHANGED svars

NextEvents == DoStepEvents

SpecEvents == InitEvents /\ [][NextEvents]_vars

\* C29: in every step of a session, on each of its paths, apply_event is
\* called once for each event the step produced, in the order of production
\* (scroll, pause, then open and watch pause when the reel was opened; the
\* scroll alone on the recovery and ad paths); the counters grow by exactly
\* these events and last_event_ts is the ts of the last event produced.
EventsAppliedOnceInOrder ==
    call.steps > 0 =>
        LET evs == call.events
            n == Len(evs)
            kinds == [i \in 1..n |-> evs[i].type]
            pauses == {i \in 1..n : evs[i].type = "pause"}
            RECURSIVE sum(_)
            sum(S) == IF S = {} THEN 0
                      ELSE LET i == CHOOSE i \in S : TRUE
                           IN  evs[i].seconds + sum(S \ {i})
        IN  /\ ret.mt.applied = evs
            /\ kinds \in { <<"scroll">>, <<"scroll", "pause">>,
                           <<"scroll", "pause", "open", "pause">> }
            /\ (call.path \in {"recover", "ad"} => kinds = <<"scroll">>)
            /\ ret.mt.m.scroll_count = call.before.m.scroll_count + 1
            /\ ret.mt.m.open_count = call.before.m.open_count
                                     + (IF n = 4 THEN 1 ELSE 0)
            /\ ret.mt.m.pause_seconds = call.before.m.pause_seconds + sum(pauses)
            /\ ret.mt.m.started_ts = call.before.m.started_ts
            /\ ret.mt.last_event_ts = evs[n].ts

\* a third step that opened the reel, its four events one second apart,
\* after a step on an early-return path
EventsOpenedWitness ==
    /\ call.steps = MaxEventSteps
    /\ Len(call.events) = 4
    /\ call.events[4].ts = call.events[1].ts + 3
    /\ ret.mt.last_event_ts = call.events[4].ts
    /\ ret.mt.m.scroll_count = MaxEventSteps
    /\ call.before.m.pause_seconds = 0

(***************************************************************************)
(* The settings commands (telegram/integration.py 600-761, 1408-1428) and  *)
(* decide on the settings they leave.  Values are hundredths.              *)
(***************************************************************************)
MaxPresses == 3

SettingStep == 2    \* step = 0.02, line 1412

ScoreKeys ==
    {"score_threshold", "weight_banalite", "weight_potentiel_viral",
     "weight_rythme", "rythme_target"}

\* the defaults of _ensure_settings_defaults, lines 612-616
DefaultSettings ==
    [k \in ScoreKeys |->
        IF k = "score_threshold" THEN 65
        ELSE IF k = "weight_rythme" THEN 30
        ELSE IF k = "rythme_target" THEN 45
        ELSE 35]

\* _ensure_settings_defaults: a key that is absent gets its default
ensure_settings_defaults(s) ==
    [k \in DOMAIN s \cup ScoreKeys |-> IF k \in DOMAIN s THEN s[k] ELSE DefaultSettings[k]]

\* _apply_setting_delta for a weight, target or threshold key
apply_setting_delta(s, key, delta) ==
    LET s1 == ensure_settings_defaults(s)
        cur == s1[key]
    IN  [s1 EXCEPT ![key] = Max(0, Min(100, cur + delta))]

\* values the - and + buttons reach from the default of each key: the
\* default, and the last value above 0 and below 1
NearBounds(k) ==
    IF k = "weight_rythme" THEN {30, 2, 98} ELSE {DefaultSettings[k], 1, 99}

SettingFeatures ==
    { [rythme |-> 90, banalite |-> 0, potentiel_viral |-> 90],
      [rythme |-> 50, banalite |-> 50, potentiel_viral |-> 50],
      [rythme |-> 10, banalite |-> 100, potentiel_viral |-> 0] }

InitSettings ==
    /\ call \in { [fn |-> "settings", presses |-> 0, features |-> f,
                   settings |-> [DefaultSettings EXCEPT ![k] = v]] :
                  f \in SettingFeatures, k \in ScoreKeys, v \in 0..100 }
    /\ \A k \in ScoreKeys : call.settings[k] \in NearBounds(k)
    /\ ret = NoRet
    /\ am = SessionMetrics(0, 0, 0, 0)
    /\ anow = 0
    /\ acfg = MaxSessionSeconds
    /\ ares = NoResult
    /\ disk = V3State
    /\ loc = [t \in Threads |-> Rest(t)]
    /\ now = 0
    /\ nsid = 0
    /\ ncmd = 0
    /\ nstep = 0
    /\ stopped = FALSE
    /\ paused_cmd = FALSE
    /\ decided = [v \in Vids |-> ""]
    /\ store = NoStore
    /\ procs = NoProcs

\* callback v3:set:<key>:<direction>, lines 1408-1428
ApplySettingDelta ==
    /\ call.presses < MaxPresses
    /\ \E key \in ScoreKeys, sign \in {0 - 1, 1} :
         call' = [call EXCEPT !.presses = @ + 1,
                              !.settings = apply_setting_delta(@, key, SettingStep * sign)]
    /\ ret' = NoRet
    /\ UNCHANGED <<am, anow, acfg, ares, store, procs>>
    /\ UNCHANGED svars

\* Selector.decide with the settings of the state
DecideWithSettings ==
    /\ ret = NoRet
    /\ ret' = decide(call.features, call.settings)
    /\ UNCHANGED <<am, anow, acfg, ares, call, store, procs>>
    /\ UNCHANGED svars

NextSettings ==
    \/ ApplySettingDelta
    \/ DecideWithSettings

SpecSettings == InitSettings /\ [][NextSettings]_vars

\* C30: for weights, rhythm target and threshold configured anywhere in
\* [0,1], 0 and 1 included, decide gives
\* score = clamp01(wBanality (1 - banality) + wViral viral
\*                 + wRhythm (1 - |rhythm - t|))
\* with the configured values, and keep = (score >= configured threshold).
DecideUsesConfiguredValues ==
    ret # NoRet =>
        LET f == call.features
            s == call.settings
            d == IF f.rythme >= s["rythme_target"] THEN f.rythme - s["rythme_target"]
                 ELSE s["rythme_target"] - f.rythme
            raw == s["weight_banalite"] * (100 - f.banalite)
                   + s["weight_potentiel_viral"] * f.potentiel_viral
                   + s["weight_rythme"] * (100 - d)
            score == IF raw < 0 THEN 0 ELSE IF raw > 10000 THEN 10000 ELSE raw
        IN  /\ ret.score = score
            /\ ret.should_keep = (score >= 100 * s["score_threshold"])

(***************************************************************************)
(* Further properties of the session engine, checked under Spec.           *)
(***************************************************************************)
\* C31: a step commits its mutations in one update: a thread that moves on
\* inside step (it is between the load of step_once and the return of step
\* before and after the move) has not written the persisted state, so the
\* persisted state is never an intermediate one such as a new active session
\* id without that session's metrics.
StepCommitsOnce ==
    [][ \A t \in Threads :
          ( /\ loc[t].pc = "loaded"
            /\ loc'[t].pc = "loaded"
            /\ loc'[t] # loc[t] )
          => disk' = disk ]_vars

\* C32: during the warm-up no rate alone triggers a level: whatever the
\* scroll count, the open count and the pause total, an assessment with
\* elapsed < 60 s and more than 180 s remaining returns SAFE.
WarmupIsSafe ==
    ( /\ ares # NoResult
      /\ elapsed_seconds(am, anow) < 60
      /\ risk_max(acfg) - elapsed_seconds(am, anow) > 180 )
    => ares.level = "SAFE"

\* an assessment 30 s into the session with a scroll rate of at least 90 per
\* minute, opens and no pause, returned SAFE
WarmupWitness ==
    /\ ares # NoResult
    /\ elapsed_seconds(am, anow) = 30
    /\ scroll_rate_per_min_ge(am, anow, 90)
    /\ am.open_count > 0
    /\ am.pause_seconds = 0
    /\ ares.level = "SAFE"
    /\ ares.remaining > 180

(***************************************************************************)
(* SessionMetrics.apply_event (metrics.py 46-53) on events of the agent    *)
(* (simulated_agent.py 59-84) and on events built directly from the event  *)
(* classes (events.py 19-32), whose fields are not checked.                *)
(***************************************************************************)
MaxApplied == 3

\* requested pause durations, tenths of a second
RequestedPauses == {0 - 50, 0, 8}

InitApply ==
    /\ am \in {SessionMetrics(0, 0, 0, ps) : ps \in {0, 30}}
    /\ call = [fn |-> "none", applied |-> 0]
    /\ ret = NoRet
    /\ anow = 0
    /\ acfg = MaxSessionSeconds
    /\ ares = NoResult
    /\ disk = V3State
    /\ loc = [t \in Threads |-> Rest(t)]
    /\ now = 0
    /\ nsid = 0
    /\ ncmd = 0
    /\ nstep = 0
    /\ stopped = FALSE
    /\ paused_cmd = FALSE
    /\ decided = [v \in Vids |-> ""]
    /\ store = NoStore
    /\ procs = NoProcs

\* m.apply_event(ev) with ev built by the agent: scroll(), open() or
\* pause(seconds)
ApplyAgentEvent ==
    /\ call.applied < MaxApplied
    /\ \E kind \in {"scroll", "open", "pause"}, seconds \in RequestedPauses :
         /\ (kind # "pause" => seconds = 0)
         /\ LET ev == IF kind = "scroll" THEN ScrollEvent
                      ELSE IF kind = "open" THEN OpenEvent
                      ELSE PauseEvent(seconds)
            IN  /\ am' = apply_event(am, ev)
                /\ call' = [fn |-> "apply_event", applied |-> call.applied + 1,
                            via |-> "agent", requested |-> seconds, ev |-> ev,
                            before |-> am]
    /\ UNCHANGED <<anow, acfg, ares, ret, store, procs>>
    /\ UNCHANGED svars

\* m.apply_event(PauseEvent(..., seconds=seconds)) with the event built from
\* the dataclass
ApplyBuiltEvent ==
    /\ call.applied < MaxApplied
    /\ \E seconds \in RequestedPauses :
         LET ev == [type |-> "pause", seconds |-> seconds]
         IN  /\ am' = apply_event(am, ev)
             /\ call' = [fn |-> "apply_event", applied |-> call.applied + 1,
                         via |-> "dataclass", requested |-> seconds, ev |-> ev,
                         before |-> am]
    /\ UNCHANGED <<anow, acfg, ares, ret, store, procs>>
    /\ UNCHANGED svars

NextApply ==
    \/ ApplyAgentEvent
    \/ ApplyBuiltEvent

SpecApply == InitApply /\ [][NextApply]_vars

\* C33 as stated: apply_event coerces its input to non-negative, so applying
\* a pause event with a negative duration does not decrease the cumulative
\* pause seconds, and no event makes a counter negative.
ApplyEventCoerces ==
    call.fn = "apply_event" =>
        /\ am.pause_seconds >= call.before.pause_seconds
        /\ am.pause_seconds >= 0
        /\ am.scroll_count >= 0
        /\ am.open_count >= 0

\* C33 amended: the coercion is the agent's.  pause(seconds) builds an event
\* with max(0, seconds), so applying an event of the agent never decreases
\* a counter of metrics whose counters are not negative, and leaves none
\* negative; a negative request adds nothing.
AgentEventsNeverDecrease ==
    ( /\ call.fn = "apply_event"
      /\ call.via = "agent"
      /\ call.before.pause_seconds >= 0 )
    => /\ call.ev.seconds >= 0
       /\ am.pause_seconds >= call.before.pause_seconds
       /\ am.scroll_count >= call.before.scroll_count
       /\ am.open_count >= call.before.open_count
       /\ am.pause_seconds >= 0
       /\ (call.requested < 0 => am = call.before)

\* the agent was asked for a pause of -5 s and the metrics, which held 3 s
\* of pauses, are unchanged
AgentNegativePauseWitness ==
    /\ call.fn = "apply_event"
    /\ call.via = "agent"
    /\ call.requested < 0
    /\ call.before.pause_seconds = 30
    /\ am.pause_seconds = 30

(***************************************************************************)
(* Further properties of the temporal analysis, checked under SpecAnalyze. *)
(***************************************************************************)
\* C34: for an analysis with a known age, the category is the one of the
\* first matching rule of the fixed order: age > 360 min with likes >=
\* 100,000 or comments >= 5,000 gives "already exploded"; else age < 120 min
\* with stv >= 3.0 gives "pre-viral"; else stv >= 1.2 gives "promising";
\* else stv <= 0.25 gives "underperforming"; else "normal".  A rule on the
\* STV does not match while the STV is unknown.
ClassifyFirstMatchWins ==
    (ret # NoRet /\ ret.analysis.age_seconds # Unknown) =>
        LET a == ret.analysis
            known == a.stv # NoFraction
            exploded == /\ a.age_seconds > 360 * 60
                        /\ (a.likes >= 100000 \/ a.comments >= 5000)
            previral == known /\ a.age_seconds < 120 * 60 /\ a.stv.num >= 3 * a.stv.den
            promising == known /\ 10 * a.stv.num >= 12 * a.stv.den
            under == known /\ 100 * a.stv.num <= 25 * a.stv.den
        IN  a.category = IF exploded THEN "Deja explosee"
                         ELSE IF previral THEN "Pre-virale (phase test)"
                         ELSE IF promising THEN "Prometteuse"
                         ELSE IF under THEN "Sous-performante"
                         ELSE "Normale"

\* C35: when the parsed age is not greater than zero (an AGE_SECONDS
\* override of 0), the analysis is returned, each of its six velocities and
\* its STV are unknown, not zero, and its category is one of the five.
NonPositiveAgeGivesUnknown ==
    (ret # NoRet /\ ret.analysis.age_seconds # Unknown /\ ret.analysis.age_seconds <= 0)
    => /\ ret.fn = "analyze"
       /\ ret.analysis.stv = NoFraction
       /\ \A v \in {"like_velocity", "share_velocity", "send_velocity", "save_velocity",
                    "remix_velocity", "comment_velocity"} : ret.analysis[v] = NoFraction
       /\ ret.analysis.category = "Normale"

\* the analysis of an item aged 0 s with likes, shares, comments and sends
\* all known
ZeroAgeWitness ==
    /\ ret # NoRet
    /\ call.text = <<Word("AGE_SECONDS="), Num(0)>>
    /\ ret.analysis.age_seconds = 0
    /\ ret.analysis.likes = 500
    /\ ret.analysis.shares = 40
    /\ ret.analysis.comments = 20
    /\ ret.analysis.sends = 12
    /\ ret.analysis.stv = NoFraction

(***************************************************************************)
(* The risk alert of session_loop (integration.py 801, 930-954) over       *)
(* consecutive steps of the scheduler loop, with the sends and the saves   *)
(* succeeding and no command handler saving in between.  Time is in        *)
(* seconds; a timestamp of -1 is None.                                     *)
(***************************************************************************)
MaxAlertTicks == 5

RiskAlertCooldownSeconds == 60

AlertGaps == {1, 30, 60}

\* cooldown_ok with the cooldown ignored
cooldown_ok_always(now_ts, last_ts) == TRUE

\* line 934: (now - float(st2.last_risk_alert_ts or 0.0)) >= cooldown, with
\* now the time since the epoch
cooldown_ok(now_ts, last_ts) ==
    last_ts = 0 - 1 \/ now_ts - last_ts >= RiskAlertCooldownSeconds

InitAlerts ==
    /\ call = [fn |-> "risk_alert", ticks |-> 0, now |-> 1000,
               last_risk_level |-> "", last_risk_alert_ts |-> 0 - 1,
               level |-> "", prev_step_level |-> "", sent |-> FALSE,
               prev_alert_ts |-> 0 - 1, same_since_alert |-> FALSE]
    /\ ret = NoRet
    /\ am = SessionMetrics(0, 0, 0, 0)
    /\ anow = 0
    /\ acfg = MaxSessionSeconds
    /\ ares = NoResult
    /\ disk = V3State
    /\ loc = [t \in Threads |-> Rest(t)]
    /\ now = 0
    /\ nsid = 0
    /\ ncmd = 0
    /\ nstep = 0
    /\ stopped = FALSE
    /\ paused_cmd = FALSE
    /\ decided = [v \in Vids |-> ""]
    /\ store = NoStore
    /\ procs = NoProcs

\* one pass of the loop with an active session: prev_level (line 801),
\* step_once (an assessed step stores its level in last_risk_level,
\* session_manager.py 713 and 765; the recovery and ad returns give SAFE and
\* store nothing), then the alert of lines 930-954.  After a HIGH_RISK stop
\* the operator starts the next session before the next pass.
AlertTick ==
    /\ call.ticks < MaxAlertTicks
    /\ \E gap \in AlertGaps, risk \in RiskLevels, assessed \in BOOLEAN,
          accepted \in BOOLEAN :
         /\ (~assessed => risk = "SAFE")
         /\ LET t == call.now + gap
                prev_level == IF call.last_risk_level = "" THEN "SAFE"
                              ELSE call.last_risk_level
                stepped_level == IF assessed THEN risk ELSE call.last_risk_level
                should_alert == risk \in {"WARNING", "HIGH_RISK"}
                attempt_alert == should_alert
                                 /\ (cooldown_ok(t, call.last_risk_alert_ts)
                                     \/ risk # prev_level)
                send == attempt_alert /\ accepted
            IN  call' = [call EXCEPT
                    !.ticks = @ + 1,
                    !.now = t,
                    !.last_risk_level = IF send THEN risk ELSE stepped_level,
                    !.last_risk_alert_ts = IF send THEN t ELSE @,
                    !.level = risk,
                    !.prev_step_level = call.level,
                    !.sent = send,
                    !.prev_alert_ts = call.last_risk_alert_ts,
                    !.same_since_alert =
                        IF call.sent THEN TRUE
                        ELSE call.same_since_alert /\ call.level = call.prev_step_level]
    /\ UNCHANGED <<am, anow, acfg, ares, ret, store, procs>>
    /\ UNCHANGED svars

NextAlerts ==
    \/ AlertTick

SpecAlerts == InitAlerts /\ [][NextAlerts]_vars

MaxPItems == 2

MaxUpdates == 2

PItems == 1 .. MaxPItems

PTargets == {0, 1, 2}

NoReason == [kind |-> "", count |-> 0]

NoPItem == [status |-> "", message_id |-> FALSE]

\* the fields of V3State the two loops share here
PState(target) ==
    [ last_update_id |-> 0,
      active_session_id |-> TRUE,
      last_session_stop_reason |-> NoReason,
      target_sent_per_session |-> target,
      videos |-> [i \in PItems |-> NoPItem] ]

\* lines 810-816: pending items without message_id, most recent first
candidates(st) ==
    {i \in PItems : st.videos[i].status = "pending" /\ ~st.videos[i].message_id}

newest(S) == CHOOSE i \in S : \A j \in S : j <= i

\* lines 874-886: items of the session, not deleted, with a message id in
\* the control chat
sent_count(st) ==
    Cardinality({i \in PItems : /\ st.videos[i].status \notin {"", "deleted"}
                                /\ st.videos[i].message_id})

\* lines 864-893: after a message was created for the candidate, stop the
\* session when the count has reached the target (stop_session keeps the
\* reason that is already set, session_manager.py 214)
target_check(st, created) ==
    IF created /\ st.active_session_id /\ st.target_sent_per_session > 0
       /\ sent_count(st) >= st.target_sent_per_session
    THEN [st EXCEPT !.last_session_stop_reason =
                        [kind |-> "target_sent_reached", count |-> sent_count(st)],
                    !.active_session_id = FALSE]
    ELSE st

InitPreview ==
    /\ \E target \in PTargets :
         call = [fn |-> "preview",
                 disk |-> PState(target),
                 loop |-> [pc |-> "idle", st |-> PState(target), cand |-> 0,
                           created |-> FALSE],
                 cmd |-> [pc |-> "idle", st |-> PState(target), kind |-> "",
                          vid |-> 0],
                 uid |-> 0,
                 recorded |-> {},
                 resent |-> FALSE]
    /\ ret = NoRet
    /\ am = SessionMetrics(0, 0, 0, 0)
    /\ anow = 0
    /\ acfg = MaxSessionSeconds
    /\ ares = NoResult
    /\ disk = V3State
    /\ loc = [t \in Threads |-> Rest(t)]
    /\ now = 0
    /\ nsid = 0
    /\ ncmd = 0
    /\ nstep = 0
    /\ stopped = FALSE
    /\ paused_cmd = FALSE
    /\ decided = [v \in Vids |-> ""]
    /\ store = NoStore
    /\ procs = NoProcs

PreviewUnchanged ==
    /\ UNCHANGED <<am, anow, acfg, ares, ret, store, procs>>
    /\ UNCHANGED svars

\* lines 768-794 and handlers.py 57: the loop goes on only with an active
\* session, and step_once loads the state
PLoopLoad ==
    /\ call.loop.pc = "idle"
    /\ call.disk.active_session_id
    /\ call' = [call EXCEPT !.loop.pc = "loaded", !.loop.st = call.disk]
    /\ PreviewUnchanged

\* handlers.py 64-65: the step adds at most one item, pending when it is
\* kept and deleted otherwise (session_manager.py 722-726), and the state is
\* saved
PLoopStep ==
    /\ call.loop.pc = "loaded"
    /\ \E outcome \in {"pending", "deleted", "seen"} :
         LET free == {i \in PItems : call.loop.st.videos[i].status = ""}
             vid == CHOOSE i \in free : \A j \in free : i <= j
             st == IF outcome = "seen" \/ free = {} THEN call.loop.st
                   ELSE [call.loop.st EXCEPT !.videos[vid].status = outcome]
         IN  /\ (free = {} => outcome = "seen")
             /\ call' = [call EXCEPT !.loop.pc = "stepped", !.loop.st = st,
                                     !.disk = st]
    /\ PreviewUnchanged

\* lines 808-860: one preview for the most recent candidate; _send_preview
\* records the message id when the send is accepted; the state is saved
PLoopPreview ==
    /\ call.loop.pc = "stepped"
    /\ \E accepted \in BOOLEAN :
         LET cands == candidates(call.loop.st)
             cand == newest(cands)
             st == IF accepted
                   THEN [call.loop.st EXCEPT !.videos[cand].message_id = TRUE]
                   ELSE call.loop.st
         IN  IF cands = {}
             THEN /\ accepted
                  /\ call' = [call EXCEPT !.loop.pc = "idle"]
             ELSE call' = [call EXCEPT
                     !.loop.pc = "sent", !.loop.st = st, !.loop.cand = cand,
                     !.loop.created = accepted,
                     !.disk = st,
                     !.recorded = IF accepted THEN @ \cup {cand} ELSE @,
                     !.resent = @ \/ (accepted /\ cand \in call.recorded)]
    /\ PreviewUnchanged

\* lines 862-901: the stop after the target, saved by stop_session and again
\* at line 890
PLoopTarget ==
    /\ call.loop.pc = "sent"
    /\ LET st == target_check(call.loop.st, call.loop.created)
       IN  call' = [call EXCEPT
               !.loop.pc = "idle", !.loop.st = st, !.loop.cand = 0,
               !.loop.created = FALSE,
               !.disk = IF st # call.loop.st THEN st ELSE @]
    /\ PreviewUnchanged

\* lines 1011-1022: the command loop takes the next update and persists its
\* id under the lock (update_state_locked)
CmdUpdate ==
    /\ call.cmd.pc = "idle"
    /\ call.uid < MaxUpdates
    /\ \E kind \in {"set_status", "open"}, vid \in PItems :
         call' = [call EXCEPT
             !.uid = @ + 1,
             !.disk.last_update_id = call.uid + 1,
             !.cmd.pc = "persisted", !.cmd.kind = kind, !.cmd.vid = vid]
    /\ PreviewUnchanged

\* handlers.py 70 and integration.py 1540: the handler loads the state
CmdLoad ==
    /\ call.cmd.pc = "persisted"
    /\ call' = [call EXCEPT !.cmd.pc = "loaded", !.cmd.st = call.disk]
    /\ PreviewUnchanged

\* handlers.py 71-76, set_status: an item that exists is approved and the
\* state saved.  integration.py 1541-1544, v3:item:open: a preview of an
\* item that exists is sent with force=True to the chat, its message id
\* recorded (lines 399-401) and the state saved; a send that raises leaves
\* the state file as it is.
CmdSave ==
    /\ call.cmd.pc = "loaded"
    /\ \E accepted \in BOOLEAN :
         LET v == call.cmd.st.videos[call.cmd.vid]
             st == IF call.cmd.kind = "set_status"
                   THEN [call.cmd.st EXCEPT !.videos[call.cmd.vid].status = "approved"]
                   ELSE [call.cmd.st EXCEPT !.videos[call.cmd.vid].message_id = TRUE]
             saved == v.status # "" /\ accepted
         IN  /\ (call.cmd.kind = "set_status" \/ v.status = "" => accepted)
             /\ call' = [call EXCEPT
                    !.cmd.pc = "idle", !.cmd.kind = "", !.cmd.vid = 0,
                    !.cmd.st = IF saved THEN st ELSE @,
                    !.disk = IF saved THEN st ELSE @]
    /\ PreviewUnchanged

NextPreview ==
    \/ PLoopLoad
    \/ PLoopStep
    \/ PLoopPreview
    \/ PLoopTarget
    \/ CmdUpdate
    \/ CmdLoad
    \/ CmdSave

SpecPreview == InitPreview /\ [][NextPreview]_vars

\* C37: once the command loop has persisted the update id u, no later save
\* of the scheduler loop or of a command handler leaves a smaller
\* last_update_id in the state file.
CursorNeverDecreases == call.disk.last_update_id >= call.uid

\* C38: once the scheduler loop has sent a preview for an item and recorded
\* its message id, the loop sends no other preview for that item, whatever
\* the interleaving with the command handlers that load and save the state.
LoopNotifiesOnce == ~call.resent

\* C40: with target_sent_per_session = N > 0 the loop stops the session in
\* the pass in which the count of not deleted items of the session with a
\* message in the control chat reaches N: between two passes, with no
\* command in progress, a running session has fewer than N such items, and
\* a session stopped for the target was stopped at a count of N.
TargetBoundsSentItems ==
    call.disk.target_sent_per_session > 0 =>
        /\ (call.loop.pc = "idle" /\ call.cmd.pc = "idle"
             /\ call.disk.active_session_id)
               => sent_count(call.disk) < call.disk.target_sent_per_session
        /\ call.disk.last_session_stop_reason.kind = "target_sent_reached"
               => call.disk.last_session_stop_reason.count
                      = call.disk.target_sent_per_session

(***************************************************************************)
(* The previews of the scheduler loop over an unbounded run of one         *)
(* session (integration.py 805-860, 296-365).  The pending items without   *)
(* message id are the backlog items 1 .. MaxBacklog, by age, and a number  *)
(* of more recent ones that are not told apart.  The loop runs alone and   *)
(* the session is never stopped.  The loop thread is always scheduled      *)
(* (while True with a sleep), and the channel, once it accepts sends,      *)
(* accepts them from then on.                                              *)
(***************************************************************************)
MaxBacklog == 2

MaxNewer == 3

Backlog == 1 .. MaxBacklog

InitNotify ==
    /\ \E waiting \in SUBSET Backlog, newer \in 0 .. MaxNewer,
          channel \in {"down", "up"} :
         call = [fn |-> "notify", pc |-> "idle",
                 item |-> [i \in Backlog |->
                             IF i \in waiting THEN "pending" ELSE "notified"],
                 newer |-> newer, channel |-> channel, cand |-> "none",
                 arrived |-> FALSE]
    /\ ret = NoRet
    /\ am = SessionMetrics(0, 0, 0, 0)
    /\ anow = 0
    /\ acfg = MaxSessionSeconds
    /\ ares = NoResult
    /\ disk = V3State
    /\ loc = [t \in Threads |-> Rest(t)]
    /\ now = 0
    /\ nsid = 0
    /\ ncmd = 0
    /\ nstep = 0
    /\ stopped = FALSE
    /\ paused_cmd = FALSE
    /\ decided = [v \in Vids |-> ""]
    /\ store = NoStore
    /\ procs = NoProcs

\* line 805, step_once: the step adds a pending item with the timestamp of
\* now (session_manager.py 722-728), or no pending item
NLoopStep ==
    /\ call.pc = "idle"
    /\ \E arrives \in BOOLEAN :
         /\ (arrives => call.newer < MaxNewer)
         /\ call' = [call EXCEPT !.pc = "stepped", !.arrived = arrives,
                                 !.newer = IF arrives THEN @ + 1 ELSE @]
    /\ PreviewUnchanged

\* lines 808-860: one preview per pass, for candidates[0] of the candidates
\* sorted by timestamp, most recent first; the message id is recorded when
\* the channel accepts the send
NLoopPreview ==
    /\ call.pc = "stepped"
    /\ LET waiting == {i \in Backlog : call.item[i] = "pending"}
           accepted == call.channel = "up"
       IN  call' =
             IF call.newer > 0
             THEN [call EXCEPT !.pc = "idle", !.cand = "newer",
                               !.newer = IF accepted THEN @ - 1 ELSE @]
             ELSE IF waiting # {}
             THEN [call EXCEPT !.pc = "idle", !.cand = "backlog",
                               !.item[newest(waiting)] =
                                   IF accepted THEN "notified" ELSE @]
             ELSE [call EXCEPT !.pc = "idle", !.cand = "none"]
    /\ PreviewUnchanged

\* the channel starts to accept sends
ChannelAccepts ==
    /\ call.channel = "down"
    /\ call' = [call EXCEPT !.channel = "up"]
    /\ PreviewUnchanged

NextNotify ==
    \/ NLoopStep
    \/ NLoopPreview
    \/ ChannelAccepts

SpecNotify ==
    /\ InitNotify
    /\ [][NextNotify]_vars
    /\ WF_vars(NLoopStep)
    /\ WF_vars(NLoopPreview)
    /\ WF_vars(ChannelAccepts)

\* C39: while the session keeps running and the channel eventually accepts
\* sends, every pending item without a notification is eventually notified;
\* newer pending items do not starve it forever.
EveryPendingItemNotified ==
    \A i \in Backlog : (call.item[i] = "pending") ~> (call.item[i] = "notified")

====
